---- MODULE Spec2Model ----
(***************************************************************************)
(* Blog summariser: the summarize request pipeline (scrape, summarise,     *)
(* translate to Urdu, persist) with its hosted-service fallbacks, the      *)
(* extractive summariser and the Urdu text quality engine.                 *)
(*                                                                         *)
(* Text is a sequence of UTF-16 code units (what charCodeAt returns), so   *)
(* that character classes and ranges of the source's regular expressions   *)
(* are the numeric ranges they are in the program.                         *)
(***************************************************************************)
EXTENDS Integers, Sequences, FiniteSets, TLC

(***************************************************************************)
(* Character table: Str turns an ASCII literal into its code units; text   *)
(* outside ASCII (the Urdu strings of the sources) is written as the code  *)
(* units themselves.                                                       *)
(***************************************************************************)

\* code units 32..95
AsciiLow ==
  " !\"#$%&'()*+,-./0123456789:;<=>?@ABCDEFGHIJKLMNOPQRSTUVWXYZ[\\]^_"

\* code units 97..126
AsciiHigh ==
  "abcdefghijklmnopqrstuvwxyz{|}~"

CodeOf(c) ==
  IF c = "\n" THEN 10
  ELSE IF c = "\t" THEN 9
  ELSE IF \E i \in 1..Len(AsciiLow) : SubSeq(AsciiLow, i, i) = c
       THEN 31 + (CHOOSE i \in 1..Len(AsciiLow) : SubSeq(AsciiLow, i, i) = c)
       ELSE 96 + (CHOOSE i \in 1..Len(AsciiHigh) : SubSeq(AsciiHigh, i, i) = c)

Str(s) == [i \in 1..Len(s) |-> CodeOf(SubSeq(s, i, i))]

(***************************************************************************)
(* JavaScript string primitives used by the sources.                       *)
(***************************************************************************)

\* The characters the regular-expression class \s (and trim) treats as white space.
WhiteSpace ==
  {9, 10, 11, 12, 13, 32, 160, 5760, 8232, 8233, 8239, 8287, 12288, 65279}
    \cup (8192..8202)

\* \w
WordChars == (48..57) \cup (65..90) \cup (97..122) \cup {95}

\* \d
Digits == 48..57

Min(a, b) == IF a < b THEN a ELSE b

\* The second argument, whatever the first.
secondArgument(a, b) == b

Max(a, b) == IF a > b THEN a ELSE b

\* String.prototype.trim
Trim(s) ==
  LET keep == {i \in 1..Len(s) : s[i] \notin WhiteSpace}
  IN IF keep = {} THEN <<>>
     ELSE SubSeq(s, CHOOSE i \in keep : \A j \in keep : i <= j,
                    CHOOSE i \in keep : \A j \in keep : i >= j)

\* String.prototype.toLowerCase, on the letters A-Z
ToLowerCase(s) == [i \in 1..Len(s) |-> IF s[i] \in 65..90 THEN s[i] + 32 ELSE s[i]]

\* String.prototype.includes
Includes(s, t) ==
  \E i \in 1..(Len(s) - Len(t) + 1) : SubSeq(s, i, i + Len(t) - 1) = t

StartsWith(s, t) == Len(s) >= Len(t) /\ SubSeq(s, 1, Len(t)) = t

EndsWith(s, t) == Len(s) >= Len(t) /\ SubSeq(s, Len(s) - Len(t) + 1, Len(s)) = t

\* s.replace(/[class]/g, '') : drop every character of the class
RemoveChars(s, class) == SelectSeq(s, LAMBDA c : c \notin class)

\* The elements of the set of integers S in increasing order.
Ascending(S, n) == SelectSeq([i \in 1..n |-> i], LAMBDA i : i \in S)

\* s.replace(/[class]+/g, c) : every maximal run of class characters becomes the
\* one character c
ReplaceRuns(s, class, c) ==
  LET kept == Ascending({i \in 1..Len(s) :
                           s[i] \notin class \/ i = 1 \/ s[i-1] \notin class}, Len(s))
  IN [k \in 1..Len(kept) |-> IF s[kept[k]] \in class THEN c ELSE s[kept[k]]]

\* s.split(/[class]+/) : the pieces between maximal runs of class characters,
\* the empty pieces at either end included ("" splits into one empty piece)
Split(s, class) ==
  LET n == Len(s)
      starts == Ascending({i \in 1..n : s[i] \notin class /\ (i = 1 \/ s[i-1] \in class)}, n)
      ends == Ascending({i \in 1..n : s[i] \notin class /\ (i = n \/ s[i+1] \in class)}, n)
      pieces == [k \in 1..Len(starts) |-> SubSeq(s, starts[k], ends[k])]
  IN IF n = 0 THEN << <<>> >>
     ELSE (IF s[1] \in class THEN << <<>> >> ELSE <<>>)
            \o pieces
            \o (IF s[n] \in class THEN << <<>> >> ELSE <<>>)

\* Array.prototype.join
Join(parts, sep) ==
  LET RECURSIVE Range(_, _)
      Range(lo, hi) ==
        IF lo > hi THEN <<>>
        ELSE IF lo = hi THEN parts[lo]
        ELSE LET mid == (lo + hi) \div 2
             IN Range(lo, mid) \o sep \o Range(mid + 1, hi)
  IN Range(1, Len(parts))

\* Array.prototype.slice(0, k)
Slice(a, k) == SubSeq(a, 1, Min(k, Len(a)))

\* a.map(s => s.trim())
TrimEach(a) == [i \in 1..Len(a) |-> Trim(a[i])]

\* (s.match(/[class]+/g) || []).length : the number of maximal runs
CountRuns(s, class) ==
  Cardinality({i \in 1..Len(s) : s[i] \in class /\ (i = 1 \/ s[i-1] \notin class)})

\* (s.match(/[class]/g) || []).length
CountChars(s, class) == Cardinality({i \in 1..Len(s) : s[i] \in class})

\* A guard that rejects the empty string only.
isEmptyString(s) == s = <<>>

\* !x?.trim() : the guard of the entry points
IsBlank(s) == Trim(s) = <<>>

(***************************************************************************)
(* Extractive summariser (lib/summarizer.ts).                              *)
(***************************************************************************)

\* [.!?]
SentenceEnd == {46, 33, 63}

\* [\w\s.,!?;:()[\]{}'"] : the characters preprocessContent keeps
SafeChars ==
  WordChars \cup WhiteSpace \cup {46, 44, 33, 63, 59, 58, 40, 41, 91, 93, 123, 125, 39, 34}

\* [()[\]{}]
Brackets == {40, 41, 91, 93, 123, 125}

preprocessContent(content) ==
  Trim(SelectSeq(ReplaceRuns(content, WhiteSpace, 32), LAMBDA c : c \in SafeChars))

\* text.split(/\s+/).length
SplitWordCount(s) == Len(Split(s, WhiteSpace))

extractSentences(content) ==
  SelectSeq(TrimEach(Split(content, SentenceEnd)),
            LAMBDA s : Len(s) > 15 /\ SplitWordCount(s) >= 3)

importantTerms ==
  { Str("important"), Str("significant"), Str("key"), Str("main"), Str("primary"),
    Str("essential"), Str("crucial"), Str("major"), Str("fundamental"),
    Str("critical"), Str("vital"), Str("necessary"), Str("therefore"),
    Str("however"), Str("moreover"), Str("furthermore"), Str("consequently"),
    Str("result"), Str("conclusion"), Str("summary"), Str("findings"),
    Str("discovered"), Str("research"), Str("study"), Str("analysis"),
    Str("data"), Str("evidence"), Str("shows"), Str("reveals"), Str("indicates"),
    Str("suggests"), Str("demonstrates"), Str("proves"), Str("according"),
    Str("expert"), Str("report") }

\* The score of the sentence at (0-based) index among total sentences.
\* index < total * 0.2 and index > total * 0.8 are compared in tenths.
\* if (index < sentences.length * 0.2) score += 3;
\* if (index > sentences.length * 0.8) score += 2;
positionBonus(index, total) ==
    (IF index * 10 < total * 2 THEN 3 ELSE 0)
  + (IF index * 10 > total * 8 THEN 2 ELSE 0)

sentenceScore(sentence, index, total) ==
  LET wordCount == SplitWordCount(ToLowerCase(sentence))
      lowerSentence == ToLowerCase(sentence)
      importantTermCount ==
        Cardinality({term \in importantTerms : Includes(lowerSentence, term)})
      numberMatches == CountRuns(sentence, Digits)
      specialCharMatches == CountChars(sentence, Brackets)
  IN   positionBonus(index, total)
     + (IF wordCount >= 10 /\ wordCount <= 30 THEN 2
        ELSE IF wordCount >= 8 /\ wordCount <= 35 THEN 1 ELSE 0)
     + importantTermCount
     - (IF numberMatches > 3 THEN 1 ELSE 0)
     - (IF specialCharMatches > 2 THEN 1 ELSE 0)
     + (IF importantTermCount >= 2 THEN 1 ELSE 0)

scoreSentences(sentences) ==
  [i \in 1..Len(sentences) |->
     [sentence |-> sentences[i],
      score |-> sentenceScore(sentences[i], i - 1, Len(sentences)),
      index |-> i - 1]]

\* Array.prototype.sort: stable, an element moves in front of the first one it
\* compares less than; less holds the pairs <<x, y>> whose comparison is negative.
SortWith(a, less) ==
  LET Insert(sorted, x) ==
        LET before == {i \in 1..Len(sorted) : <<x, sorted[i]>> \in less}
            p == IF before = {} THEN Len(sorted) + 1
                 ELSE CHOOSE i \in before : \A j \in before : i <= j
        IN SubSeq(sorted, 1, p - 1) \o <<x>> \o SubSeq(sorted, p, Len(sorted))
      RECURSIVE Go(_, _)
      Go(i, sorted) == IF i > Len(a) THEN sorted ELSE Go(i + 1, Insert(sorted, a[i]))
  IN Go(1, <<>>)

\* A limit of five sentences, without the 30% rule.
maxSentencesUpToFive(totalSentences) == Min(5, totalSentences)

\* Math.min(5, Math.ceil(totalSentences * 0.3))
maxSentences(totalSentences) == Min(5, (totalSentences * 3 + 9) \div 10)

\* A comparison that puts the later of two equally scored sentences first.
byScoreThenLaterIndex(items) ==
  {pair \in items \X items :
     \/ pair[2].score - pair[1].score < 0
     \/ pair[2].score = pair[1].score /\ pair[1].index > pair[2].index}

\* (a, b) => b.score - a.score
byScoreDescending(items) ==
  {pair \in items \X items : pair[2].score - pair[1].score < 0}

\* (a, b) => a.index - b.index
byIndexAscending(items) ==
  {pair \in items \X items : pair[1].index - pair[2].index < 0}

\* the elements of an array
Elements(a) == {a[i] : i \in 1..Len(a)}

\* A selection that keeps the order of the scores.
selectTopByScoreOnly(scoredSentences, totalSentences) ==
  Slice(SortWith(scoredSentences, byScoreDescending(Elements(scoredSentences))),
        maxSentences(totalSentences))

selectTopSentences(scoredSentences, totalSentences) ==
  SortWith(Slice(SortWith(scoredSentences, byScoreDescending(Elements(scoredSentences))),
                 maxSentences(totalSentences)),
           byIndexAscending(Elements(scoredSentences)))

\* The matches of a pattern  head \s* ([^forbidden]{10,150})  with the g flag:
\* headLen[i] is the length of the head matched at position i (0: none).  \s* is
\* greedy and gives white space back until the group finds its 10 characters;
\* the group is greedy up to 150; the search resumes where the match ended.
\* The result is the list of captured groups.
GroupMatches(s, headLen, forbidden) ==
  LET n == Len(s)
      RunLen(g) ==
        LET stop == {j \in g..n : s[j] \in forbidden}
            end == IF stop = {} THEN n + 1 ELSE CHOOSE j \in stop : \A k \in stop : j <= k
        IN Min(150, end - g)
      WsLen(g) ==
        LET stop == {j \in g..n : s[j] \notin WhiteSpace}
            end == IF stop = {} THEN n + 1 ELSE CHOOSE j \in stop : \A k \in stop : j <= k
        IN end - g
      Starts(i) ==
        IF headLen[i] = 0 THEN {}
        ELSE {g \in (i + headLen[i])..(i + headLen[i] + WsLen(i + headLen[i])) :
                RunLen(g) >= 10}
      matching == {i \in 1..n : Starts(i) # {}}
      RECURSIVE Go(_, _)
      Go(from, acc) ==
        LET rest == {i \in matching : i >= from}
        IN IF rest = {} THEN acc
           ELSE LET i == CHOOSE x \in rest : \A y \in rest : x <= y
                    g == CHOOSE x \in Starts(i) : \A y \in Starts(i) : x >= y
                IN Go(g + RunLen(g), Append(acc, SubSeq(s, g, g + RunLen(g) - 1)))
  IN Go(1, <<>>)

\* the class of the bullet markers: U+2022, U+00B7, '-', '*'
BulletMarkers == {8226, 183, 45, 42}

extractBulletPoints(content) ==
  LET n == Len(content)
      bulletHead(i) == IF content[i] \in BulletMarkers THEN 1 ELSE 0
      \* \d+[\.\)] : all the digits of the run, then a dot or a parenthesis
      numberHead(i) ==
        IF content[i] \notin Digits THEN 0
        ELSE LET stop == {j \in i..n : content[j] \notin Digits}
                 end == IF stop = {} THEN n + 1
                        ELSE CHOOSE j \in stop : \A k \in stop : j <= k
             IN IF end <= n /\ content[end] \in {46, 41} THEN end - i + 1 ELSE 0
      groups == GroupMatches(content, [i \in 1..n |-> bulletHead(i)], BulletMarkers \cup {10})
                  \o GroupMatches(content, [i \in 1..n |-> numberHead(i)], Digits \cup {10})
  IN SelectSeq(TrimEach(groups), LAMBDA point : Len(point) >= 10)

keyIndicators ==
  { Str("key"), Str("important"), Str("main"), Str("significant"), Str("essential"),
    Str("crucial"), Str("primary"), Str("major"), Str("fundamental"), Str("critical") }

findKeywordSentences(sentences) ==
  Slice(SelectSeq(sentences,
                  LAMBDA sentence :
                    \E indicator \in keyIndicators :
                      Includes(ToLowerCase(sentence), indicator)),
        3)

\* keyPoints before the final filter and slice(0, 5)
keyPointCandidates(content, sentences) ==
  LET bulletPoints == extractBulletPoints(content)
      withKeywords == IF Len(bulletPoints) < 3
                      THEN bulletPoints \o findKeywordSentences(sentences)
                      ELSE bulletPoints
  IN IF Len(withKeywords) = 0 THEN Slice(sentences, 3) ELSE withKeywords

\* Key points without the final slice(0, 5).
extractKeyPointsUncapped(content, sentences) ==
  SelectSeq(keyPointCandidates(content, sentences),
            LAMBDA point : Len(point) > 10 /\ Len(point) < 200)

extractKeyPoints(content, sentences) ==
  Slice(SelectSeq(keyPointCandidates(content, sentences),
                  LAMBDA point : Len(point) > 10 /\ Len(point) < 200),
        5)

\* text.trim().split(/\s+/).filter(word => word.length > 0).length
countWords(text) ==
  Len(SelectSeq(Split(Trim(text), WhiteSpace), LAMBDA word : Len(word) > 0))

PLACEHOLDER_SUMMARY == Str("Unable to generate summary from provided content.")

\* selectedSentences.map(item => item.sentence).join('. ') + '.'
joinSummary(selectedSentences) ==
  Join([i \in 1..Len(selectedSentences) |-> selectedSentences[i].sentence], Str(". "))
    \o Str(".")

\* summary || 'Unable to generate summary from provided content.'
summaryOrPlaceholder(summary) == IF summary = <<>> THEN PLACEHOLDER_SUMMARY ELSE summary

\* The sentences generateExtractiveSummary selects, in the order it joins them.
selectedSentencesOf(content) ==
  LET sentences == extractSentences(preprocessContent(content))
  IN selectTopSentences(scoreSentences(sentences), Len(sentences))

\* generateExtractiveSummary for non-blank content (blank content throws).
generateExtractiveSummary(content) ==
  LET cleanContent == preprocessContent(content)
      sentences == extractSentences(cleanContent)
  IN [summary |-> summaryOrPlaceholder(joinSummary(selectedSentencesOf(content))),
      keyPoints |-> extractKeyPoints(content, sentences),
      wordCount |-> countWords(cleanContent),
      originalLength |-> Len(cleanContent)]

(***************************************************************************)
(* Urdu text quality engine (lib/urdu-utils.ts).                           *)
(***************************************************************************)

URDU_UNICODE_RANGES ==
  << [start |-> 1536, end |-> 1791],      \* 0x0600-0x06FF Arabic
     [start |-> 1872, end |-> 1919],      \* 0x0750-0x077F Arabic Supplement
     [start |-> 2208, end |-> 2303],      \* 0x08A0-0x08FF Arabic Extended-A
     [start |-> 64336, end |-> 65023],    \* 0xFB50-0xFDFF Presentation Forms-A
     [start |-> 65136, end |-> 65279] >>  \* 0xFE70-0xFEFF Presentation Forms-B

\* [\u064B-\u065F\u0670\u06D6-\u06ED]
URDU_DIACRITICS == (1611..1631) \cup {1648} \cup (1750..1773)

\* The Urdu punctuation marks, as code units.
FULL_STOP == 1748

QUESTION_MARK == 1567

EXCLAMATION == 33

COMMA == 1548

SEMICOLON == 1563

\* [U+06D4 U+061F !] : the sentence terminators of the post-processing patterns
UrduSentenceEnd == {FULL_STOP, QUESTION_MARK, EXCLAMATION}

\* [U+06D4 U+061F ! U+060C U+061B]
UrduPunctuation == {FULL_STOP, QUESTION_MARK, EXCLAMATION, COMMA, SEMICOLON}

\* [U+0622-U+06CC] : the letter class of postProcessUrduTranslation
UrduLetters == 1570..1740

inUrduRange(charCode) ==
  \E r \in 1..Len(URDU_UNICODE_RANGES) :
    charCode >= URDU_UNICODE_RANGES[r].start /\ charCode <= URDU_UNICODE_RANGES[r].end

containsUrduScript(text) ==
  /\ text # <<>>
  /\ \E r \in 1..Len(URDU_UNICODE_RANGES) :
       \E i \in 1..Len(text) :
         text[i] >= URDU_UNICODE_RANGES[r].start /\ text[i] <= URDU_UNICODE_RANGES[r].end

\* (urduChars / totalChars) * 100, kept as the fraction num / den (den > 0)
calculateUrduScriptPercentage(text) ==
  LET totalChars == Len(RemoveChars(text, WhiteSpace))
      urduChars == Cardinality({i \in 1..Len(text) : inUrduRange(text[i])})
  IN IF text = <<>> \/ totalChars = 0 THEN [num |-> 0, den |-> 1]
     ELSE [num |-> urduChars * 100, den |-> totalChars]

\* percentage < k, percentage > k
PercentBelow(p, k) == p.num < k * p.den

PercentAbove(p, k) == p.num > k * p.den

\* The prefixes normalizeUrduText strips (matched without regard to case): the
\* three Urdu ones ("Urdu translation:", "translation:", "this is the Urdu
\* translation:"), then Translation: and Urdu:
TRANSLATION_PREFIXES ==
  << <<1575, 1585, 1583, 1608, 32, 1578, 1585, 1580, 1605, 1729, 58>>,
     <<1578, 1585, 1580, 1605, 1729, 58>>,
     <<1740, 1729, 32, 1575, 1585, 1583, 1608, 32, 1578, 1585, 1580, 1605, 1729, 32,
       1729, 1746, 58>>,
     Str("Translation:"),
     Str("Urdu:") >>

\* .replace(/^\s*["]|["]\s*$/g, '')
stripSurroundingQuotes(s) ==
  LET \* the first character after the leading white space
      first == CHOOSE i \in 1..(Len(s) + 1) :
                 /\ \A j \in 1..(i - 1) : s[j] \in WhiteSpace
                 /\ (i = Len(s) + 1 \/ s[i] \notin WhiteSpace)
      afterLead == IF first <= Len(s) /\ s[first] = 34
                   THEN SubSeq(s, first + 1, Len(s)) ELSE s
      last == CHOOSE i \in 0..Len(afterLead) :
                /\ \A j \in (i + 1)..Len(afterLead) : afterLead[j] \in WhiteSpace
                /\ (i = 0 \/ afterLead[i] \notin WhiteSpace)
  IN IF last >= 1 /\ afterLead[last] = 34 THEN SubSeq(afterLead, 1, last - 1)
     ELSE afterLead

\* .replace(/^(p1|p2|p3|Translation:|Urdu:)/gi, '')
stripTranslationPrefix(s) ==
  LET hits == {k \in 1..Len(TRANSLATION_PREFIXES) :
                 StartsWith(ToLowerCase(s), ToLowerCase(TRANSLATION_PREFIXES[k]))}
  IN IF hits = {} THEN s
     ELSE LET k == CHOOSE x \in hits : \A y \in hits : x <= y
          IN SubSeq(s, Len(TRANSLATION_PREFIXES[k]) + 1, Len(s))

\* .replace(/\r\n/g, '\n')
normalizeLineEndings(s) ==
  LET kept == Ascending({i \in 1..Len(s) : ~(s[i] = 13 /\ i < Len(s) /\ s[i+1] = 10)},
                        Len(s))
  IN [k \in 1..Len(kept) |-> s[kept[k]]]

normalizeUrduText(text) ==
  Trim(ReplaceRuns(normalizeLineEndings(stripTranslationPrefix(stripSurroundingQuotes(
         ReplaceRuns(Trim(text), WhiteSpace, 32)))), {10}, 10))

extractUrduText(text) ==
  LET lines == Split(text, {10})
      urduLines ==
        SelectSeq(TrimEach(lines),
                  LAMBDA trimmedLine :
                    /\ trimmedLine # <<>>
                    /\ containsUrduScript(trimmedLine)
                    /\ PercentAbove(calculateUrduScriptPercentage(trimmedLine), 30))
  IN IF text = <<>> THEN <<>>
     ELSE IF Len(urduLines) > 0 THEN Join([i \in 1..Len(urduLines) |-> normalizeUrduText(urduLines[i])], <<10>>)
     ELSE normalizeUrduText(text)

\* Rounding of the floating-point qualityScore against its decimal value, by the
\* deductions applied (script, length, structure, English words; in hundredths):
\* 1.0 - 0.3 - 0.2 is 0.49999999999999994, just below 0.5.
RoundsBelow ==
  { <<0, 30, 0, 20>>, <<0, 30, 20, 0>>, <<0, 30, 20, 20>>, <<0, 30, 10, 20>>,
    <<0, 10, 20, 20>>, <<50, 0, 20, 20>>, <<20, 30, 20, 20>> }

RoundsAbove ==
  { <<0, 0, 20, 20>>, <<0, 10, 10, 20>>, <<50, 10, 10, 0>>, <<50, 10, 10, 20>>,
    <<20, 0, 0, 20>>, <<20, 0, 20, 0>>, <<20, 0, 20, 20>>, <<20, 0, 10, 0>>,
    <<20, 10, 0, 0>>, <<20, 10, 10, 0>>, <<20, 10, 10, 20>> }

\* (text.match(/[a-zA-Z]{3,}/g) || []).length : the runs of 3 or more letters
englishWordCount(text) ==
  LET letters == (65..90) \cup (97..122)
      n == Len(text)
  IN Cardinality({i \in 1..n :
       /\ text[i] \in letters /\ (i = 1 \/ text[i-1] \notin letters)
       /\ i + 2 <= n /\ text[i+1] \in letters /\ text[i+2] \in letters})

\* qualityScore is in hundredths; qualityRounding is the sign of the
\* floating-point value minus that decimal.
\* The deductions analyzeUrduTextQuality takes from the score 1.0, in
\* hundredths: for the script, the length, the structure and English words.
qualityDeductions(hasUrduScript, scriptPercentage, wordCount, sentenceCount, englishWords) ==
  << IF ~hasUrduScript THEN 50
     ELSE IF PercentBelow(scriptPercentage, 50) THEN 20 ELSE 0,
     IF wordCount < 3 THEN 30 ELSE IF wordCount > 1000 THEN 10 ELSE 0,
     IF sentenceCount = 0 THEN 20
     ELSE IF wordCount > 25 * sentenceCount THEN 10 ELSE 0,
     IF englishWords > 0 /\ englishWords * 10 > wordCount * 3 THEN 20 ELSE 0 >>

\* The UrduQualityMetrics built from the measurements (suggestions left out;
\* the percentage printed inside the low-percentage issue left out).
qualityMetrics(hasUrduScript, scriptPercentage, diacriticsCount, wordCount, sentenceCount, deductions) ==
  [hasUrduScript |-> hasUrduScript,
   scriptPercentage |-> scriptPercentage,
   diacriticsCount |-> diacriticsCount,
   wordCount |-> wordCount,
   sentenceCount |-> sentenceCount,
   avgWordsPerSentence |-> IF sentenceCount > 0
                           THEN [num |-> wordCount, den |-> sentenceCount]
                           ELSE [num |-> 0, den |-> 1],
   qualityScore |->
     Max(0, 100 - deductions[1] - deductions[2] - deductions[3] - deductions[4]),
   qualityRounding |->
     IF 100 - deductions[1] - deductions[2] - deductions[3] - deductions[4] <= 0 THEN 0
     ELSE IF deductions \in RoundsBelow THEN -1
     ELSE IF deductions \in RoundsAbove THEN 1 ELSE 0,
   issues |->
     (IF deductions[1] = 50 THEN <<"No Urdu script detected">>
      ELSE IF deductions[1] = 20 THEN <<"Low Urdu script percentage">> ELSE <<>>)
     \o (IF deductions[2] = 30 THEN <<"Text too short">>
         ELSE IF deductions[2] = 10 THEN <<"Text might be too long">> ELSE <<>>)
     \o (IF deductions[3] = 20 THEN <<"No proper sentences detected">>
         ELSE IF deductions[3] = 10 THEN <<"Sentences too long">> ELSE <<>>)
     \o (IF deductions[4] = 20 THEN <<"Too many English words detected">> ELSE <<>>)]

\* The metrics and, from them, the deductions.
measuredQuality(hasUrduScript, scriptPercentage, diacriticsCount, wordCount, sentenceCount, englishWords) ==
  qualityMetrics(hasUrduScript, scriptPercentage, diacriticsCount, wordCount,
                 sentenceCount,
                 qualityDeductions(hasUrduScript, scriptPercentage, wordCount,
                                   sentenceCount, englishWords))

\* analyzeUrduTextQuality after const cleanText = normalizeUrduText(text)
analyzeCleanText(cleanText) ==
  measuredQuality(
    containsUrduScript(cleanText),
    calculateUrduScriptPercentage(cleanText),
    CountChars(cleanText, URDU_DIACRITICS),
    Len(SelectSeq(Split(cleanText, WhiteSpace), LAMBDA w : Len(w) > 0)),
    Len(SelectSeq(Split(cleanText, {FULL_STOP, QUESTION_MARK, 33, 46, 63}),
                  LAMBDA s : Len(Trim(s)) > 5)),
    englishWordCount(cleanText))

analyzeUrduTextQuality(text) == analyzeCleanText(normalizeUrduText(text))

\* qualityScore >= minQualityScore, on the floating-point values
scoreAtLeast(metrics, minQualityScore) ==
  \/ metrics.qualityScore > minQualityScore
  \/ metrics.qualityScore = minQualityScore /\ metrics.qualityRounding >= 0

\* A verdict that looks at the score alone.
verdictByScoreAlone(metrics, minQualityScore) == scoreAtLeast(metrics, minQualityScore)

\* metrics.qualityScore >= minQualityScore && metrics.hasUrduScript
validationVerdict(metrics, minQualityScore) ==
  scoreAtLeast(metrics, minQualityScore) /\ metrics.hasUrduScript

\* The bonuses validateUrduTranslation adds to the confidence, in hundredths.
confidenceBonus(metrics) ==
  (IF PercentAbove(metrics.scriptPercentage, 80) THEN 10 ELSE 0)
    + (IF metrics.sentenceCount > 0
            /\ metrics.avgWordsPerSentence.num < 20 * metrics.avgWordsPerSentence.den
       THEN 10 ELSE 0)
    + (IF metrics.diacriticsCount > 0 THEN 5 ELSE 0)

\* validateUrduTranslation after const metrics = analyzeUrduTextQuality(...)
\* and the count of the words of the original
validationResult(metrics, originalWords, minQualityScore) ==
  [isValid |-> validationVerdict(metrics, minQualityScore),
   confidence |-> Min(100, metrics.qualityScore + confidenceBonus(metrics)),
   issues |-> metrics.issues
                \o (IF metrics.wordCount * 10 < originalWords * 3
                    THEN <<"Translation significantly shorter than original">>
                    ELSE IF metrics.wordCount > originalWords * 3
                    THEN <<"Translation much longer than original">> ELSE <<>>),
   metrics |-> metrics]

validateUrduTranslation(originalText, translatedText, minQualityScore) ==
  validationResult(
    analyzeUrduTextQuality(translatedText),
    Len(SelectSeq(Split(originalText, WhiteSpace), LAMBDA w : Len(w) > 0)),
    minQualityScore)

\* minQualityScore: number = 0.5
DEFAULT_MIN_QUALITY == 50

\* .replace(/([letters])\s+([letters])/g, '$1$2') : matches are found left to
\* right and do not overlap, so the letter that closes one match cannot open
\* the next.
removeSpacesBetweenLetters(s) ==
  LET n == Len(s)
      WsEnd(i) ==      \* the first position after i that holds no white space
        LET stop == {j \in (i + 1)..n : s[j] \notin WhiteSpace}
        IN IF stop = {} THEN n + 1 ELSE CHOOSE j \in stop : \A k \in stop : j <= k
      opens == {i \in 1..n : /\ s[i] \in UrduLetters
                             /\ WsEnd(i) > i + 1 /\ WsEnd(i) <= n
                             /\ s[WsEnd(i)] \in UrduLetters}
      RECURSIVE Go(_, _)
      Go(from, removed) ==
        LET rest == {i \in opens : i >= from}
        IN IF rest = {} THEN removed
           ELSE LET i == CHOOSE x \in rest : \A y \in rest : x <= y
                IN Go(WsEnd(i) + 1, removed \cup ((i + 1)..(WsEnd(i) - 1)))
      kept == Ascending((1..n) \ Go(1, {}), n)
  IN [k \in 1..Len(kept) |-> s[kept[k]]]

\* .replace(/\s*([marks])\s*/g, '$1 ') : every mark loses the white space
\* around it and is followed by one space
spaceAroundPunctuation(s) ==
  LET n == Len(s)
      \* the white-space run holding position j touches a mark
      Touches(j) ==
        \/ \E k \in (j + 1)..n :
             s[k] \in UrduPunctuation /\ \A m \in j..(k - 1) : s[m] \in WhiteSpace
        \/ \E k \in 1..(j - 1) :
             s[k] \in UrduPunctuation /\ \A m \in (k + 1)..j : s[m] \in WhiteSpace
  IN Join([j \in 1..n |->
             IF s[j] \in UrduPunctuation THEN <<s[j], 32>>
             ELSE IF s[j] \in WhiteSpace /\ Touches(j) THEN <<>>
             ELSE <<s[j]>>], <<>>)

\* .replace(/([enders])\s*([^\s])/g, '$1 $2') : one space between a sentence
\* terminator and the character after it; matches do not overlap, so a
\* terminator taken as $2 opens no match of its own.
spaceAfterSentenceEnd(s) ==
  LET n == Len(s)
      WsEnd(i) ==
        LET stop == {j \in (i + 1)..n : s[j] \notin WhiteSpace}
        IN IF stop = {} THEN n + 1 ELSE CHOOSE j \in stop : \A k \in stop : j <= k
      opens == {i \in 1..n : s[i] \in UrduSentenceEnd /\ WsEnd(i) <= n}
      RECURSIVE Go(_, _)
      Go(from, matched) ==
        LET rest == {i \in opens : i >= from}
        IN IF rest = {} THEN matched
           ELSE LET i == CHOOSE x \in rest : \A y \in rest : x <= y
                IN Go(WsEnd(i) + 1, matched \cup {i})
      matched == Go(1, {})
      \* position j lies in the white space a match replaces
      Replaced(j) == \E i \in matched : j > i /\ j < WsEnd(i)
  IN Join([j \in 1..n |->
             IF j \in matched THEN <<s[j], 32>>
             ELSE IF Replaced(j) THEN <<>>
             ELSE <<s[j]>>], <<>>)

postProcessUrduTranslation(text) ==
  LET normalized == {normalizeUrduText(text)}
      joined == {removeSpacesBetweenLetters(t) : t \in normalized}
      spaced == {spaceAfterSentenceEnd(spaceAroundPunctuation(t)) : t \in joined}
      processed == CHOOSE p \in {Trim(ReplaceRuns(t, WhiteSpace, 32)) : t \in spaced} : TRUE
  IN IF processed # <<>> /\ processed[Len(processed)] \notin UrduSentenceEnd
     THEN Append(processed, FULL_STOP)
     ELSE processed

(***************************************************************************)
(* Dictionary translator (lib/translator.ts).                              *)
(***************************************************************************)

\* An object literal as a lookup table: the entries in source order, a repeated
\* key keeping its last value.
DictOf(entries) ==
  [w \in {entries[k][1] : k \in DOMAIN entries} |->
     entries[CHOOSE k \in DOMAIN entries :
               /\ entries[k][1] = w
               /\ \A m \in DOMAIN entries : entries[m][1] = w => m <= k][2]]

ENGLISH_URDU_DICTIONARY ==
  DictOf(<<
     << Str("the"), <<1740, 1729>> >>,
     << Str("and"), <<1575, 1608, 1585>> >>,
     << Str("is"), <<1729, 1746>> >>,
     << Str("in"), <<1605, 1740, 1722>> >>,
     << Str("to"), <<1705, 1608>> >>,
     << Str("of"), <<1705, 1575>> >>,
     << Str("a"), <<1575, 1740, 1705>> >>,
     << Str("that"), <<1740, 1729>> >>,
     << Str("it"), <<1740, 1729>> >>,
     << Str("with"), <<1705, 1746, 32, 1587, 1575, 1578, 1726>> >>,
     << Str("for"), <<1705, 1746, 32, 1604, 1740, 1746>> >>,
     << Str("as"), <<1580, 1740, 1587, 1746>> >>,
     << Str("was"), <<1578, 1726, 1575>> >>,
     << Str("on"), <<1662, 1585>> >>,
     << Str("are"), <<1729, 1740, 1722>> >>,
     << Str("you"), <<1570, 1662>> >>,
     << Str("this"), <<1740, 1729>> >>,
     << Str("be"), <<1729, 1608, 1606, 1575>> >>,
     << Str("at"), <<1662, 1585>> >>,
     << Str("by"), <<1705, 1746, 32, 1584, 1585, 1740, 1593, 1746>> >>,
     << Str("not"), <<1606, 1729, 1740, 1722>> >>,
     << Str("or"), <<1740, 1575>> >>,
     << Str("have"), <<1729, 1746>> >>,
     << Str("from"), <<1587, 1746>> >>,
     << Str("they"), <<1608, 1729>> >>,
     << Str("we"), <<1729, 1605>> >>,
     << Str("but"), <<1604, 1740, 1705, 1606>> >>,
     << Str("can"), <<1705, 1585, 32, 1587, 1705, 1578, 1746, 32, 1729, 1740, 1722>> >>,
     << Str("out"), <<1576, 1575, 1729, 1585>> >>,
     << Str("other"), <<1583, 1608, 1587, 1585, 1746>> >>,
     << Str("were"), <<1578, 1726, 1746>> >>,
     << Str("all"), <<1578, 1605, 1575, 1605>> >>,
     << Str("there"), <<1608, 1729, 1575, 1722>> >>,
     << Str("when"), <<1580, 1576>> >>,
     << Str("up"), <<1575, 1608, 1662, 1585>> >>,
     << Str("use"), <<1575, 1587, 1578, 1593, 1605, 1575, 1604>> >>,
     << Str("your"), <<1570, 1662, 32, 1705, 1575>> >>,
     << Str("how"), <<1705, 1740, 1587, 1746>> >>,
     << Str("our"), <<1729, 1605, 1575, 1585, 1575>> >>,
     << Str("if"), <<1575, 1711, 1585>> >>,
     << Str("no"), <<1606, 1729, 1740, 1722>> >>,
     << Str("had"), <<1578, 1726, 1575>> >>,
     << Str("what"), <<1705, 1740, 1575>> >>,
     << Str("so"), <<1578, 1608>> >>,
     << Str("about"), <<1705, 1746, 32, 1576, 1575, 1585, 1746, 32, 1605, 1740, 1722>> >>,
     << Str("time"), <<1608, 1602, 1578>> >>,
     << Str("very"), <<1576, 1729, 1578>> >>,
     << Str("would"), <<1711, 1575>> >>,
     << Str("has"), <<1729, 1746>> >>,
     << Str("more"), <<1586, 1740, 1575, 1583, 1729>> >>,
     << Str("many"), <<1576, 1729, 1578, 32, 1587, 1746>> >>,
     << Str("some"), <<1705, 1670, 1726>> >>,
     << Str("first"), <<1662, 1729, 1604, 1575>> >>,
     << Str("new"), <<1606, 1740, 1575>> >>,
     << Str("good"), <<1575, 1670, 1726, 1575>> >>,
     << Str("great"), <<1593, 1592, 1740, 1605>> >>,
     << Str("best"), <<1576, 1729, 1578, 1585, 1740, 1606>> >>,
     << Str("old"), <<1662, 1585, 1575, 1606, 1575>> >>,
     << Str("small"), <<1670, 1726, 1608, 1657, 1575>> >>,
     << Str("large"), <<1576, 1681, 1575>> >>,
     << Str("long"), <<1604, 1605, 1576, 1575>> >>,
     << Str("short"), <<1670, 1726, 1608, 1657, 1575>> >>,
     << Str("high"), <<1575, 1608, 1606, 1670, 1575>> >>,
     << Str("low"), <<1606, 1740, 1670, 1575>> >>,
     << Str("big"), <<1576, 1681, 1575>> >>,
     << Str("go"), <<1580, 1575, 1606, 1575>> >>,
     << Str("see"), <<1583, 1740, 1705, 1726, 1606, 1575>> >>,
     << Str("make"), <<1576, 1606, 1575, 1606, 1575>> >>,
     << Str("get"), <<1604, 1740, 1606, 1575>> >>,
     << Str("come"), <<1570, 1606, 1575>> >>,
     << Str("know"), <<1580, 1575, 1606, 1606, 1575>> >>,
     << Str("work"), <<1705, 1575, 1605>> >>,
     << Str("give"), <<1583, 1740, 1606, 1575>> >>,
     << Str("take"), <<1604, 1740, 1606, 1575>> >>,
     << Str("find"), <<1578, 1604, 1575, 1588, 32, 1705, 1585, 1606, 1575>> >>,
     << Str("think"), <<1587, 1608, 1670, 1606, 1575>> >>,
     << Str("say"), <<1705, 1729, 1606, 1575>> >>,
     << Str("tell"), <<1576, 1578, 1575, 1606, 1575>> >>,
     << Str("ask"), <<1662, 1608, 1670, 1726, 1606, 1575>> >>,
     << Str("feel"), <<1605, 1581, 1587, 1608, 1587, 32, 1705, 1585, 1606, 1575>> >>,
     << Str("try"), <<1705, 1608, 1588, 1588, 32, 1705, 1585, 1606, 1575>> >>,
     << Str("help"), <<1605, 1583, 1583>> >>,
     << Str("show"), <<1583, 1705, 1726, 1575, 1606, 1575>> >>,
     << Str("play"), <<1705, 1726, 1740, 1604, 1606, 1575>> >>,
     << Str("run"), <<1583, 1608, 1681, 1606, 1575>> >>,
     << Str("people"), <<1604, 1608, 1711>> >>,
     << Str("person"), <<1588, 1582, 1589>> >>,
     << Str("man"), <<1570, 1583, 1605, 1740>> >>,
     << Str("woman"), <<1593, 1608, 1585, 1578>> >>,
     << Str("child"), <<1576, 1670, 1729>> >>,
     << Str("family"), <<1582, 1575, 1606, 1583, 1575, 1606>> >>,
     << Str("friend"), <<1583, 1608, 1587, 1578>> >>,
     << Str("teacher"), <<1575, 1587, 1578, 1575, 1583>> >>,
     << Str("student"), <<1591, 1575, 1604, 1576, 32, 1593, 1604, 1605>> >>,
     << Str("doctor"), <<1672, 1575, 1705, 1657, 1585>> >>,
     << Str("engineer"), <<1575, 1606, 1580, 1740, 1606, 1574, 1585>> >>,
     << Str("world"), <<1583, 1606, 1740, 1575>> >>,
     << Str("country"), <<1605, 1604, 1705>> >>,
     << Str("city"), <<1588, 1729, 1585>> >>,
     << Str("home"), <<1711, 1726, 1585>> >>,
     << Str("school"), <<1575, 1587, 1705, 1608, 1604>> >>,
     << Str("office"), <<1583, 1601, 1578, 1585>> >>,
     << Str("hospital"), <<1729, 1587, 1662, 1578, 1575, 1604>> >>,
     << Str("market"), <<1576, 1575, 1586, 1575, 1585>> >>,
     << Str("place"), <<1580, 1711, 1729>> >>,
     << Str("area"), <<1593, 1604, 1575, 1602, 1729>> >>,
     << Str("technology"), <<1657, 1740, 1705, 1606, 1575, 1604, 1608, 1580, 1740>> >>,
     << Str("business"), <<1705, 1575, 1585, 1608, 1576, 1575, 1585>> >>,
     << Str("company"), <<1705, 1605, 1662, 1606, 1740>> >>,
     << Str("system"), <<1606, 1592, 1575, 1605>> >>,
     << Str("development"), <<1578, 1585, 1602, 1740>> >>,
     << Str("software"), <<1587, 1575, 1601, 1657, 32, 1608, 1740, 1574, 1585>> >>,
     << Str("computer"), <<1705, 1605, 1662, 1740, 1608, 1657, 1585>> >>,
     << Str("internet"), <<1575, 1606, 1657, 1585, 1606, 1740, 1657>> >>,
     << Str("website"), <<1608, 1740, 1576, 32, 1587, 1575, 1574, 1657>> >>,
     << Str("data"), <<1672, 1740, 1657, 1575>> >>,
     << Str("information"), <<1605, 1593, 1604, 1608, 1605, 1575, 1578>> >>,
     << Str("service"), <<1582, 1583, 1605, 1578>> >>,
     << Str("management"), <<1575, 1606, 1578, 1592, 1575, 1605>> >>,
     << Str("project"), <<1605, 1606, 1589, 1608, 1576, 1729>> >>,
     << Str("application"), <<1575, 1662, 1604, 1740, 1705, 1740, 1588, 1606>> >>,
     << Str("digital"), <<1672, 1740, 1580, 1740, 1657, 1604>> >>,
     << Str("online"), <<1570, 1606, 32, 1604, 1575, 1574, 1606>> >>,
     << Str("mobile"), <<1605, 1608, 1576, 1575, 1574, 1604>> >>,
     << Str("platform"), <<1662, 1604, 1740, 1657, 32, 1601, 1575, 1585, 1605>> >>,
     << Str("network"), <<1606, 1740, 1657, 32, 1608, 1585, 1705>> >>,
     << Str("security"), <<1587, 1740, 1705, 1740, 1608, 1585, 1657, 1740>> >>,
     << Str("science"), <<1587, 1575, 1574, 1606, 1587>> >>,
     << Str("research"), <<1578, 1581, 1602, 1740, 1602>> >>,
     << Str("study"), <<1605, 1591, 1575, 1604, 1593, 1729>> >>,
     << Str("analysis"), <<1578, 1580, 1586, 1740, 1729>> >>,
     << Str("method"), <<1591, 1585, 1740, 1602, 1729>> >>,
     << Str("process"), <<1593, 1605, 1604>> >>,
     << Str("result"), <<1606, 1578, 1740, 1580, 1729>> >>,
     << Str("solution"), <<1581, 1604>> >>,
     << Str("problem"), <<1605, 1587, 1574, 1604, 1729>> >>,
     << Str("innovation"), <<1580, 1583, 1578>> >>,
     << Str("future"), <<1605, 1587, 1578, 1602, 1576, 1604>> >>,
     << Str("change"), <<1578, 1576, 1583, 1740, 1604, 1740>> >>,
     << Str("growth"), <<1578, 1585, 1602, 1740>> >>,
     << Str("progress"), <<1662, 1740, 1588, 32, 1602, 1583, 1605, 1740>> >>,
     << Str("success"), <<1705, 1575, 1605, 1740, 1575, 1576, 1740>> >>,
     << Str("artificial"), <<1605, 1589, 1606, 1608, 1593, 1740>> >>,
     << Str("intelligence"), <<1584, 1729, 1575, 1606, 1578>> >>,
     << Str("machine"), <<1605, 1588, 1740, 1606>> >>,
     << Str("learning"), <<1587, 1740, 1705, 1726, 1606, 1575>> >>,
     << Str("algorithm"), <<1575, 1604, 1711, 1608, 1585, 1578, 1726, 1605>> >>,
     << Str("programming"), <<1662, 1585, 1608, 1711, 1585, 1575, 1605, 1606, 1711>> >>,
     << Str("code"), <<1705, 1608, 1672>> >>,
     << Str("database"), <<1672, 1740, 1657, 1575, 1576, 1740, 1587>> >>,
     << Str("design"), <<1672, 1740, 1586, 1575, 1574, 1606>> >>,
     << Str("content"), <<1605, 1608, 1575, 1583>> >>,
     << Str("media"), <<1605, 1740, 1672, 1740, 1575>> >>,
     << Str("communication"), <<1585, 1575, 1576, 1591, 1729>> >>,
     << Str("experience"), <<1578, 1580, 1585, 1576, 1729>> >>,
     << Str("performance"), <<1705, 1575, 1585, 1705, 1585, 1583, 1711, 1740>> >>,
     << Str("quality"), <<1605, 1593, 1740, 1575, 1585>> >>,
     << Str("support"), <<1587, 1662, 1608, 1585, 1657>> >>,
     << Str("product"), <<1662, 1585, 1608, 1672, 1705, 1657>> >>,
     << Str("customer"), <<1705, 1587, 1657, 1605, 1585>> >>,
     << Str("education"), <<1578, 1593, 1604, 1740, 1605>> >>,
     << Str("knowledge"), <<1593, 1604, 1605>> >>,
     << Str("skill"), <<1605, 1729, 1575, 1585, 1578>> >>,
     << Str("training"), <<1578, 1585, 1576, 1740, 1578>> >>,
     << Str("course"), <<1705, 1608, 1585, 1587>> >>,
     << Str("lesson"), <<1587, 1576, 1602>> >>,
     << Str("book"), <<1705, 1578, 1575, 1576>> >>,
     << Str("chapter"), <<1576, 1575, 1576>> >>,
     << Str("page"), <<1589, 1601, 1581, 1729>> >>,
     << Str("health"), <<1589, 1581, 1578>> >>,
     << Str("medical"), <<1591, 1576, 1740>> >>,
     << Str("care"), <<1583, 1740, 1705, 1726, 32, 1576, 1726, 1575, 1604>> >>,
     << Str("social"), <<1587, 1605, 1575, 1580, 1740>> >>,
     << Str("community"), <<1705, 1605, 1740, 1608, 1606, 1657, 1740>> >>,
     << Str("society"), <<1605, 1593, 1575, 1588, 1585, 1729>> >>,
     << Str("culture"), <<1579, 1602, 1575, 1601, 1578>> >>,
     << Str("tradition"), <<1585, 1608, 1575, 1740, 1578>> >>,
     << Str("modern"), <<1580, 1583, 1740, 1583>> >>,
     << Str("economic"), <<1575, 1602, 1578, 1589, 1575, 1583, 1740>> >>,
     << Str("financial"), <<1605, 1575, 1604, 1740>> >>,
     << Str("money"), <<1662, 1740, 1587, 1729>> >>,
     << Str("cost"), <<1602, 1740, 1605, 1578>> >>,
     << Str("price"), <<1602, 1740, 1605, 1578>> >>,
     << Str("value"), <<1602, 1583, 1585>> >>,
     << Str("government"), <<1581, 1705, 1608, 1605, 1578>> >>,
     << Str("policy"), <<1662, 1575, 1604, 1740, 1587, 1740>> >>,
     << Str("law"), <<1602, 1575, 1606, 1608, 1606>> >>,
     << Str("organization"), <<1578, 1606, 1592, 1740, 1605>> >>,
     << Str("institution"), <<1575, 1583, 1575, 1585, 1729>> >>,
     << Str("blog"), <<1576, 1604, 1575, 1711>> >>,
     << Str("article"), <<1605, 1590, 1605, 1608, 1606>> >>,
     << Str("story"), <<1705, 1729, 1575, 1606, 1740>> >>,
     << Str("news"), <<1582, 1576, 1585>> >>,
     << Str("report"), <<1585, 1662, 1608, 1585, 1657>> >>,
     << Str("summary"), <<1582, 1604, 1575, 1589, 1729>> >>,
     << Str("description"), <<1578, 1601, 1589, 1740, 1604>> >>,
     << Str("example"), <<1605, 1579, 1575, 1604>> >>,
     << Str("detail"), <<1578, 1601, 1589, 1740, 1604>> >>,
     << Str("point"), <<1606, 1705, 1578, 1729>> >>,
     << Str("idea"), <<1582, 1740, 1575, 1604>> >>,
     << Str("concept"), <<1578, 1589, 1608, 1585>> >>,
     << Str("important"), <<1575, 1729, 1605>> >>,
     << Str("main"), <<1576, 1606, 1740, 1575, 1583, 1740>> >>,
     << Str("key"), <<1705, 1604, 1740, 1583, 1740>> >>,
     << Str("major"), <<1575, 1729, 1605>> >>,
     << Str("primary"), <<1576, 1606, 1740, 1575, 1583, 1740>> >>,
     << Str("basic"), <<1576, 1606, 1740, 1575, 1583, 1740>> >>,
     << Str("simple"), <<1570, 1587, 1575, 1606>> >>,
     << Str("complex"), <<1662, 1740, 1670, 1740, 1583, 1729>> >>,
     << Str("difficult"), <<1605, 1588, 1705, 1604>> >>,
     << Str("easy"), <<1570, 1587, 1575, 1606>> >>,
     << Str("hard"), <<1605, 1588, 1705, 1604>> >>,
     << Str("possible"), <<1605, 1605, 1705, 1606>> >>,
     << Str("available"), <<1583, 1587, 1578, 1740, 1575, 1576>> >>,
     << Str("necessary"), <<1590, 1585, 1608, 1585, 1740>> >>,
     << Str("useful"), <<1605, 1601, 1740, 1583>> >> >>)

\* [.,!?;:()[\]{}'"]
LookupPunctuation == {46, 44, 33, 63, 59, 58, 40, 41, 91, 93, 123, 125, 39, 34}

preprocessTextForTranslation(text) ==
  SelectSeq(Split(ToLowerCase(text), WhiteSpace), LAMBDA word : Len(word) > 0)

suffixesToRemove == <<Str("ing"), Str("ed"), Str("er"), Str("est"), Str("s"), Str("ly")>>

generateWordVariations(word) ==
  LET stripped ==
        Join([k \in 1..Len(suffixesToRemove) |->
                IF EndsWith(word, suffixesToRemove[k])
                     /\ Len(word) > Len(suffixesToRemove[k]) + 2
                THEN << SubSeq(word, 1, Len(word) - Len(suffixesToRemove[k])) >>
                ELSE <<>>], <<>>)
      plural == IF EndsWith(word, Str("ies")) /\ Len(word) > 4
                THEN << SubSeq(word, 1, Len(word) - 3) \o Str("y") >> ELSE <<>>
  IN <<word>> \o stripped \o plural

translateWord(word) ==
  LET cleanWord == RemoveChars(word, LookupPunctuation)
      variations == generateWordVariations(cleanWord)
      found == {k \in 1..Len(variations) : variations[k] \in DOMAIN ENGLISH_URDU_DICTIONARY}
  IN IF cleanWord \in DOMAIN ENGLISH_URDU_DICTIONARY THEN ENGLISH_URDU_DICTIONARY[cleanWord]
     ELSE IF found # {}
          THEN ENGLISH_URDU_DICTIONARY[variations[CHOOSE k \in found : \A m \in found : k <= m]]
          ELSE word

postprocessTranslation(translation) ==
  spaceAfterSentenceEnd(Trim(ReplaceRuns(translation, WhiteSpace, 32)))

\* words.map(word => translateWord(word))
translatedWords(words) == [i \in 1..Len(words) |-> translateWord(words[i])]

translateUsingDictionary(text) ==
  IF IsBlank(text) THEN <<>>
  ELSE postprocessTranslation(
         Join(translatedWords(preprocessTextForTranslation(text)), <<32>>))

(***************************************************************************)
(* Hosted-service client (lib/cohere.ts).                                  *)
(***************************************************************************)

basicDict ==
  DictOf(<<
     << Str("the"), <<1740, 1729>> >>,
     << Str("and"), <<1575, 1608, 1585>> >>,
     << Str("is"), <<1729, 1746>> >>,
     << Str("in"), <<1605, 1740, 1722>> >>,
     << Str("to"), <<1705, 1608>> >>,
     << Str("of"), <<1705, 1575>> >>,
     << Str("a"), <<1575, 1740, 1705>> >>,
     << Str("that"), <<1740, 1729>> >>,
     << Str("it"), <<1740, 1729>> >>,
     << Str("with"), <<1705, 1746, 32, 1587, 1575, 1578, 1726>> >>,
     << Str("for"), <<1705, 1746, 32, 1604, 1740, 1746>> >>,
     << Str("as"), <<1580, 1740, 1587, 1746>> >>,
     << Str("was"), <<1578, 1726, 1575>> >>,
     << Str("on"), <<1662, 1585>> >>,
     << Str("are"), <<1729, 1740, 1722>> >>,
     << Str("you"), <<1570, 1662>> >>,
     << Str("this"), <<1740, 1729>> >>,
     << Str("be"), <<1729, 1608, 1606, 1575>> >>,
     << Str("at"), <<1662, 1585>> >>,
     << Str("by"), <<1705, 1746, 32, 1584, 1585, 1740, 1593, 1746>> >>,
     << Str("not"), <<1606, 1729, 1740, 1722>> >>,
     << Str("or"), <<1740, 1575>> >>,
     << Str("have"), <<1729, 1746>> >>,
     << Str("from"), <<1587, 1746>> >>,
     << Str("they"), <<1608, 1729>> >>,
     << Str("we"), <<1729, 1605>> >>,
     << Str("but"), <<1604, 1740, 1705, 1606>> >>,
     << Str("blog"), <<1576, 1604, 1575, 1711>> >>,
     << Str("content"), <<1605, 1608, 1575, 1583>> >>,
     << Str("summary"), <<1582, 1604, 1575, 1589, 1729>> >>,
     << Str("information"), <<1605, 1593, 1604, 1608, 1605, 1575, 1578>> >>,
     << Str("technology"), <<1657, 1740, 1705, 1606, 1575, 1604, 1608, 1580, 1740>> >> >>)

\* basicDict[cleanWord] || word
fallbackWord(word) ==
  LET cleanWord == RemoveChars(word, LookupPunctuation)
  IN IF cleanWord \in DOMAIN basicDict THEN basicDict[cleanWord] ELSE word

fallbackWords(words) == [i \in 1..Len(words) |-> fallbackWord(words[i])]

generateFallbackTranslation(text) ==
  Join(fallbackWords(Split(ToLowerCase(text), WhiteSpace)), <<32>>)

\* cleaned || response
cleanTranslationResponse(response) ==
  LET extracted == extractUrduText(response)
      cleaned == IF ~containsUrduScript(extracted) THEN normalizeUrduText(response)
                 ELSE extracted
  IN IF cleaned = <<>> THEN response ELSE cleaned

\* The issue translateToUrdu looks for before it replaces a candidate.
NO_SCRIPT_ISSUE == "Translation does not contain Urdu script"

\* Array.prototype.includes
ArrayIncludes(a, x) == \E i \in 1..Len(a) : a[i] = x

\* The text translateToUrdu keeps after validating the cleaned candidate.
acceptedTranslation(text, translatedText) ==
  LET validation == validateUrduTranslation(text, translatedText, DEFAULT_MIN_QUALITY)
  IN IF ~validation.isValid /\ ArrayIncludes(validation.issues, NO_SCRIPT_ISSUE)
     THEN generateFallbackTranslation(text)
     ELSE translatedText


\* String.prototype.indexOf(t, from), 1-based; 0 when t does not occur
IndexOf(s, t, from) ==
  LET hits == {i \in from..(Len(s) - Len(t) + 1) : SubSeq(s, i, i + Len(t) - 1) = t}
  IN IF hits = {} THEN 0 ELSE CHOOSE i \in hits : \A j \in hits : i <= j

UNABLE_TO_SUMMARIZE == Str("Unable to generate summary")

\* point.replace(/^[-*(U+2022)]\s*/, '').trim()
stripBullet(point) ==
  IF point # <<>> /\ point[1] \in {45, 42, 8226}
  THEN Trim(SubSeq(point, 2, Len(point)))
  ELSE Trim(point)

\* The key-point lines of a hosted response before slice(0, 5):
\* /KEY POINTS:\s*([\s\S]*?)$/, then split('\n'), whose empty lines are
\* filtered out.
stripBullets(lines) == [i \in 1..Len(lines) |-> stripBullet(lines[i])]

parsedKeyPointLines(response) ==
  LET at == IndexOf(response, Str("KEY POINTS:"), 1)
      keyPointsText == IF at = 0 THEN <<>>
                       ELSE Trim(SubSeq(response, at + 11, Len(response)))
  IN SelectSeq(stripBullets(Split(keyPointsText, {10})),
               LAMBDA point : Len(point) > 0)

\* /SUMMARY:\s*([\s\S]*?)(?=KEY POINTS:|$)/ : the text between the first
\* SUMMARY: and the next KEY POINTS: (or the end), trimmed
parsedSummaryText(response) ==
  LET at == IndexOf(response, Str("SUMMARY:"), 1)
      next == IndexOf(response, Str("KEY POINTS:"), at + 8)
  IN IF at = 0 THEN <<>>
     ELSE Trim(SubSeq(response, at + 8, IF next = 0 THEN Len(response) ELSE next - 1))

parseSummaryResponse(response) ==
  [summary |-> IF parsedSummaryText(response) = <<>> THEN UNABLE_TO_SUMMARIZE
               ELSE parsedSummaryText(response),
   keyPoints |-> Slice(parsedKeyPointLines(response), 5)]

\* CohereService.countWords: text.trim().split(/\s+/).length
cohereCountWords(text) == Len(Split(Trim(text), WhiteSpace))

\* The result of CohereService.generateSummary when the chat call returned.
hostedSummary(content, responseText) ==
  [summary |-> parseSummaryResponse(responseText).summary,
   keyPoints |-> parseSummaryResponse(responseText).keyPoints,
   wordCount |-> cohereCountWords(content),
   originalLength |-> Len(content)]

generateFallbackSummary(content) ==
  LET sentences == Slice(SelectSeq(TrimEach(Split(content, SentenceEnd)),
                                   LAMBDA s : Len(s) > 10), 5)
  IN [summary |-> Join(sentences, Str(". ")) \o Str("."),
      keyPoints |-> Slice(sentences, 3),
      wordCount |-> cohereCountWords(content),
      originalLength |-> Len(content)]

\* private readonly maxRetries = 3
maxRetries == 3

\* private readonly retryDelay = 1000
retryDelay == 1000

\* What CohereService.translateToUrdu returns once the chat call has returned
\* responseText.
hostedTranslation(text, responseText) ==
  LET translatedText == {cleanTranslationResponse(responseText)}
      accepted == {acceptedTranslation(text, t) : t \in translatedText}
  IN CHOOSE final \in {postProcessUrduTranslation(a) : a \in accepted} : TRUE

(***************************************************************************)
(* Web scraper (lib/scraper.ts): quality of the extracted text.            *)
(***************************************************************************)

\* defaultConfig.minContentLength
minContentLength == 100

navigationIndicators ==
  <<Str("menu"), Str("navigation"), Str("breadcrumb"), Str("sidebar"), Str("footer"),
    Str("header")>>

\* navigationIndicators.some(indicator => content.toLowerCase().includes(indicator))
hasNavigationText(content) ==
  \E k \in 1..Len(navigationIndicators) :
    Includes(ToLowerCase(content), navigationIndicators[k])

\* The penalties, with the length test turned round.
contentPenaltiesOnLongContent(content, minLength, wordCount, uniqueWords, sentenceCount) ==
  << IF Len(content) > minLength THEN 30 ELSE 0,
     IF wordCount < 50 THEN 20 ELSE 0,
     IF wordCount > 0 /\ uniqueWords * 10 < wordCount * 3 THEN 20 ELSE 0,
     IF hasNavigationText(content) THEN 10 ELSE 0,
     IF sentenceCount < 3 THEN 20 ELSE 0 >>

\* The penalties validateContent takes from the score 1.0, in hundredths and
\* in the order of the code: length, word count, repetition, navigation text,
\* sentence structure.  uniqueWords / wordCount is Infinity for no word.
contentPenalties(content, minLength, wordCount, uniqueWords, sentenceCount) ==
  << IF Len(content) < minLength THEN 30 ELSE 0,
     IF wordCount < 50 THEN 20 ELSE 0,
     IF wordCount > 0 /\ uniqueWords * 10 < wordCount * 3 THEN 20 ELSE 0,
     IF hasNavigationText(content) THEN 10 ELSE 0,
     IF sentenceCount < 3 THEN 20 ELSE 0 >>

\* The double that 1.0 minus the penalties, subtracted in this order, comes
\* to, as its distance from the double nearest to the decimal result, in
\* units of 2^-57 (IEEE 754, round to nearest even).
penaltyRounding(penalties) ==
  IF penalties \in { <<0, 0, 20, 0, 20>>, <<0, 0, 20, 10, 0>>, <<0, 20, 0, 0, 20>>,
                     <<0, 20, 0, 10, 0>>, <<0, 20, 20, 0, 0>>, <<0, 20, 20, 10, 0>>,
                     <<0, 20, 20, 10, 20>> } THEN 16
  ELSE IF penalties = <<0, 20, 20, 0, 20>> THEN 8
  ELSE IF penalties \in { <<30, 0, 0, 0, 20>>, <<30, 0, 0, 10, 20>>, <<30, 0, 20, 0, 0>>,
                          <<30, 0, 20, 0, 20>>, <<30, 20, 0, 0, 0>>, <<30, 20, 0, 0, 20>>,
                          <<30, 20, 20, 0, 0>> } THEN -8
  ELSE IF penalties \in { <<30, 0, 20, 10, 0>>, <<30, 0, 20, 10, 20>>,
                          <<30, 20, 0, 10, 0>>, <<30, 20, 0, 10, 20>> } THEN -16
  ELSE IF penalties \in { <<30, 20, 20, 0, 20>>, <<30, 20, 20, 10, 0>>,
                          <<30, 20, 20, 10, 20>> } THEN -12
  ELSE 0

\* String(n) for a natural number
ToDecimal(n) ==
  LET RECURSIVE Digits10(_)
      Digits10(m) == IF m < 10 THEN <<48 + m>> ELSE Append(Digits10(m \div 10), 48 + (m % 10))
  IN Digits10(n)

\* The ContentQuality of the penalties: score in hundredths, scoreUlps the
\* rounding of the double, issues in the order they are pushed (suggestions
\* left out).  With all five penalties the double is -12 units, below zero,
\* and Math.max(0, score) returns 0.
contentQuality(length, minLength, wordCount, penalties) ==
  [score |-> Max(0, 100 - penalties[1] - penalties[2] - penalties[3] - penalties[4]
                      - penalties[5]),
   scoreUlps |->
     IF Max(0, 100 - penalties[1] - penalties[2] - penalties[3] - penalties[4]
                   - penalties[5]) = 0
     THEN Max(0, penaltyRounding(penalties)) ELSE penaltyRounding(penalties),
   issues |->
     (IF penalties[1] > 0
      THEN << Str("Content too short (") \o ToDecimal(length) \o Str(" chars, minimum ")
                \o ToDecimal(minLength) \o Str(")") >>
      ELSE <<>>)
       \o (IF penalties[2] > 0
           THEN << Str("Very few words (") \o ToDecimal(wordCount) \o Str(")") >>
           ELSE <<>>)
       \o (IF penalties[3] > 0 THEN <<Str("Content appears repetitive")>> ELSE <<>>)
       \o (IF penalties[4] > 0
           THEN <<Str("Content may include navigation elements")>> ELSE <<>>)
       \o (IF penalties[5] > 0
           THEN <<Str("Content lacks proper sentence structure")>> ELSE <<>>)]

\* validateContent after the words, the unique words and the sentences have
\* been counted.
measuredContent(content, minLength, wordCount, uniqueWords, sentenceCount) ==
  contentQuality(Len(content), minLength, wordCount,
                 contentPenalties(content, minLength, wordCount, uniqueWords,
                                  sentenceCount))

validateContent(content, minLength) ==
  measuredContent(
    content, minLength,
    Len(SelectSeq(Split(Trim(content), WhiteSpace), LAMBDA word : Len(word) > 0)),
    Cardinality(Elements(Split(ToLowerCase(content), WhiteSpace))),
    Len(SelectSeq(Split(content, SentenceEnd), LAMBDA s : Len(Trim(s)) > 10)))

\* a.score < b.score and a.score >= b.score, on the doubles
scoreLess(a, b) ==
  a.score < b.score \/ (a.score = b.score /\ a.scoreUlps < b.scoreUlps)

\* quality.score < 0.3
poorQuality(quality) == quality.score < 30 \/ (quality.score = 30 /\ quality.scoreUlps < 0)

\* String(quality.score) for a score below 0.3: the shortest decimal that reads
\* back as the double
scoreText(quality) ==
  IF quality.score = 30 THEN Str("0.29999999999999993")
  ELSE IF quality.score = 20 /\ quality.scoreUlps = -16 THEN Str("0.1999999999999999")
  ELSE IF quality.score = 20 THEN Str("0.19999999999999993")
  ELSE IF quality.score = 10 THEN Str("0.09999999999999992")
  ELSE Str("0")

\* `Poor content quality (score: ${quality.score}): ${quality.issues.join(', ')}`
poorQualityMessage(quality) ==
  Str("Poor content quality (score: ") \o scoreText(quality) \o Str("): ")
    \o Join(quality.issues, Str(", "))

(***************************************************************************)
(* Web scraper: the parsed document and the three extraction strategies.   *)
(* A document is the sequence of its nodes in document order; parent is    *)
(* the index of the parent node, 0 for a child of the root, and -1 once    *)
(* remove() has detached the node.  Text lives in "#text" nodes.           *)
(***************************************************************************)

\* A simple selector: tag, class, id and role ("" for any), and the class of
\* an ancestor for a descendant combinator ("" for none).
Selector(tag, class, id, role, inside) ==
  [tag |-> tag, class |-> class, id |-> id, role |-> role, inside |-> inside]

contentSelectors ==
  << Selector("article", "", "", "", ""),
     Selector("", "post-content", "", "", ""),
     Selector("", "entry-content", "", "", ""),
     Selector("", "content", "", "", ""),
     Selector("", "post-body", "", "", ""),
     Selector("", "article-content", "", "", ""),
     Selector("", "article-body", "", "", ""),
     Selector("", "blog-content", "", "", ""),
     Selector("", "main-content", "", "", ""),
     Selector("", "content-area", "", "", ""),
     Selector("main", "", "", "main", ""),
     Selector("main", "", "", "", ""),
     Selector("", "", "", "main", ""),
     Selector("", "content", "", "", "container"),
     Selector("", "", "content", "", ""),
     Selector("", "", "main", "", "") >>

\* 'script, style, nav, header, footer, aside, .sidebar, .menu, .navigation,
\*  .breadcrumb, .social-share, .comments'
unwantedSelectors ==
  << Selector("script", "", "", "", ""), Selector("style", "", "", "", ""),
     Selector("nav", "", "", "", ""), Selector("header", "", "", "", ""),
     Selector("footer", "", "", "", ""), Selector("aside", "", "", "", ""),
     Selector("", "sidebar", "", "", ""), Selector("", "menu", "", "", ""),
     Selector("", "navigation", "", "", ""), Selector("", "breadcrumb", "", "", ""),
     Selector("", "social-share", "", "", ""), Selector("", "comments", "", "", "") >>

\* 'nav, header, footer, aside, .sidebar, .menu'
nonContentSelectors == SubSeq(unwantedSelectors, 3, 8)

\* 'div, section, article'
blockSelectors ==
  << Selector("div", "", "", "", ""), Selector("section", "", "", "", ""),
     Selector("article", "", "", "", "") >>

\* The ancestors of node i, up to the root of the tree that holds it.
ancestorsOf(dom, i) ==
  LET RECURSIVE Up(_)
      Up(j) == IF dom[j].parent <= 0 THEN {} ELSE {dom[j].parent} \cup Up(dom[j].parent)
  IN Up(i)

\* Node i is in the document, not in a subtree remove() took out.
attached(dom, i) == \A a \in {i} \cup ancestorsOf(dom, i) : dom[a].parent # -1

\* Element i matches one of the selectors of the list.
matches(dom, i, selectors) ==
  /\ dom[i].tag # "#text"
  /\ \E k \in 1..Len(selectors) :
       /\ selectors[k].tag \in {"", dom[i].tag}
       /\ selectors[k].class = "" \/ selectors[k].class \in dom[i].classes
       /\ selectors[k].id \in {"", dom[i].id}
       /\ selectors[k].role \in {"", dom[i].role}
       /\ selectors[k].inside = ""
            \/ \E a \in ancestorsOf(dom, i) : selectors[k].inside \in dom[a].classes

\* $(selector) : the matching elements of the document, in document order
select(dom, selectors) ==
  Ascending({i \in 1..Len(dom) : attached(dom, i) /\ matches(dom, i, selectors)}, Len(dom))

\* element.text() : the text nodes of the subtree of i, in document order
textOf(dom, i) ==
  Join(SelectSeq([j \in 1..Len(dom) |->
                    IF dom[j].tag = "#text" /\ (j = i \/ i \in ancestorsOf(dom, j))
                    THEN dom[j].text ELSE <<>>],
                 LAMBDA t : t # <<>>), <<>>)

\* element.find(unwanted).remove() : the document afterwards
removeUnwanted(dom, i) ==
  [j \in 1..Len(dom) |->
     IF i \in ancestorsOf(dom, j) /\ matches(dom, j, unwantedSelectors)
     THEN [dom[j] EXCEPT !.parent = -1] ELSE dom[j]]

cleanText(text) ==
  Trim(SelectSeq(ReplaceRuns(ReplaceRuns(ReplaceRuns(text, WhiteSpace, 32), {10}, 10),
                             {9}, 32),
                 LAMBDA c : c \in (32..126) \cup {10}))

\* The title selectors: the element looked for and, for a descendant
\* combinator, the ancestor it must have.
TitleSelector(target, nested, ancestor) ==
  [target |-> target, nested |-> nested, ancestor |-> ancestor]

titleSelectors ==
  << TitleSelector(Selector("h1", "entry-title", "", "", ""), FALSE, Selector("", "", "", "", "")),
     TitleSelector(Selector("h1", "post-title", "", "", ""), FALSE, Selector("", "", "", "", "")),
     TitleSelector(Selector("h1", "article-title", "", "", ""), FALSE, Selector("", "", "", "", "")),
     TitleSelector(Selector("h1", "", "", "", "title"), FALSE, Selector("", "", "", "", "")),
     TitleSelector(Selector("h1", "", "", "", ""), TRUE, Selector("header", "", "", "", "")),
     TitleSelector(Selector("h1", "", "", "", ""), FALSE, Selector("", "", "", "", "")),
     TitleSelector(Selector("title", "", "", "", ""), FALSE, Selector("", "", "", "", "")) >>

\* $(selector) for a title selector
selectTitle(dom, selector) ==
  Ascending({i \in 1..Len(dom) :
               /\ attached(dom, i) /\ matches(dom, i, <<selector.target>>)
               /\ selector.nested =>
                    \E a \in ancestorsOf(dom, i) : matches(dom, a, <<selector.ancestor>>)},
            Len(dom))

\* $(selector).text() : the texts of all the elements matched
textOfAll(dom, elements) ==
  Join([k \in 1..Len(elements) |-> textOf(dom, elements[k])], <<>>)

UNTITLED == Str("Untitled Article")

\* The candidate of title selector k: the trimmed text of its first element,
\* <<>> when it matches nothing.
titleCandidate(dom, k) ==
  LET element == selectTitle(dom, titleSelectors[k])
  IN IF Len(element) > 0 THEN Trim(textOf(dom, element[1])) ELSE <<>>

extractTitle(dom) ==
  LET accepted == {k \in 1..Len(titleSelectors) :
                     /\ Len(selectTitle(dom, titleSelectors[k])) > 0
                     /\ Len(titleCandidate(dom, k)) > 0
                     /\ Len(titleCandidate(dom, k)) < 200}
      pageTitle == Trim(textOfAll(dom, selectTitle(dom, titleSelectors[Len(titleSelectors)])))
  IN IF accepted # {}
     THEN cleanText(titleCandidate(dom, CHOOSE k \in accepted : \A m \in accepted : k <= m))
     ELSE IF pageTitle # <<>> THEN cleanText(pageTitle)
     ELSE UNTITLED

\* The text extractTextFromElement returns for element i of a document it has
\* already stripped.
strippedText(stripped, i) == cleanText(Trim(textOf(stripped, i)))

\* Strategy 1: the first element of each selector is stripped, and accepted
\* when its text is longer than 100 characters.
trySelectors(document) ==
  LET RECURSIVE From(_, _)
      From(dom, k) ==
        IF k > Len(contentSelectors) THEN [found |-> FALSE, content |-> <<>>, dom |-> dom]
        ELSE LET element == select(dom, <<contentSelectors[k]>>)
             IN IF Len(element) = 0 THEN From(dom, k + 1)
                ELSE LET stripped == removeUnwanted(dom, element[1])
                     IN IF Len(strippedText(stripped, element[1])) > 100
                        THEN [found |-> TRUE,
                              content |-> strippedText(stripped, element[1]),
                              dom |-> stripped]
                        ELSE From(stripped, k + 1)
  IN From(document, 1)

\* The each() loop of findLargestTextBlocks over the elements selected: an
\* element inside a non-content region is skipped, any other is stripped and
\* kept when its text is longer than 100 characters.
scanBlocks(document, elements) ==
  LET RECURSIVE From(_, _, _)
      From(dom, k, textBlocks) ==
        IF k > Len(elements) THEN [textBlocks |-> textBlocks, dom |-> dom]
        ELSE IF \E a \in {elements[k]} \cup ancestorsOf(dom, elements[k]) :
                  matches(dom, a, nonContentSelectors)
        THEN From(dom, k + 1, textBlocks)
        ELSE LET stripped == removeUnwanted(dom, elements[k])
             IN From(stripped, k + 1,
                     IF Len(strippedText(stripped, elements[k])) > 100
                     THEN Append(textBlocks, strippedText(stripped, elements[k]))
                     ELSE textBlocks)
  IN From(document, 1, <<>>)

\* (a, b) => b.length - a.length
byLengthDescending(blocks) == {pair \in blocks \X blocks : Len(pair[2]) - Len(pair[1]) < 0}

\* findLargestTextBlocks: the three longest blocks, and the document afterwards
findLargestTextBlocks(dom) ==
  LET scanned == scanBlocks(dom, select(dom, blockSelectors))
  IN [textBlocks |-> Slice(SortWith(scanned.textBlocks,
                                    byLengthDescending(Elements(scanned.textBlocks))), 3),
      dom |-> scanned.dom]

\* Strategy 3: $('p').map(text().trim()).get().filter(text => text.length > 20)
paragraphsOf(dom) ==
  SelectSeq([k \in 1..Len(select(dom, <<Selector("p", "", "", "", "")>>)) |->
               Trim(textOf(dom, select(dom, <<Selector("p", "", "", "", "")>>)[k]))],
            LAMBDA text : Len(text) > 20)

\* 'Could not extract sufficient content from the webpage'
EXTRACTION_FAILURE == Str("Could not extract sufficient content from the webpage")

\* Strategies 2 and 3, on the document strategy 1 has left.
extractFromBlocks(blocks) ==
  IF Len(blocks.textBlocks) > 0
  THEN [strategy |-> "blocks", content |-> blocks.textBlocks[1], error |-> <<>>]
  ELSE IF Len(paragraphsOf(blocks.dom)) > 0
  THEN [strategy |-> "paragraphs", content |-> Join(paragraphsOf(blocks.dom), Str("\n\n")),
        error |-> <<>>]
  ELSE [strategy |-> "none", content |-> <<>>, error |-> EXTRACTION_FAILURE]

\* extractContent after strategy 1 has run.
extractAfterSelectors(selected) ==
  IF selected.found
  THEN [strategy |-> "selector", content |-> selected.content, error |-> <<>>]
  ELSE extractFromBlocks(findLargestTextBlocks(selected.dom))

\* extractContent($): the content returned, or the message of the Error thrown
extractContent(dom) == extractAfterSelectors(trySelectors(dom))

(***************************************************************************)
(* Documents cheerio.load parses, written as trees.                        *)
(***************************************************************************)

\* <tag class="...">
Element(tag, classes) ==
  [tag |-> tag, classes |-> classes, id |-> "", role |-> "", parent |-> 0, text |-> <<>>]

\* The nodes of a forest moved by `by` places, its roots hung under `top`.
Shift(nodes, by, top) ==
  [j \in 1..Len(nodes) |->
     [nodes[j] EXCEPT !.parent = IF @ = 0 THEN top ELSE @ + by]]

\* <element>children</element>, and two forests side by side
Under(element, children) == <<element>> \o Shift(children, 1, 1)

Beside(a, b) == a \o Shift(b, Len(a), 0)

\* <p>text</p>
Paragraph(text) ==
  Under(Element("p", {}), <<[Element("#text", {}) EXCEPT !.text = text]>>)

\* 10, 47 and 141 characters
SHORT_TEXT == Str("Too short.")

MEDIUM_TEXT == Str("Subscribe to our letter for the weekly updates.")

LONG_TEXT ==
  Str("Solar panels turn sunlight into power. Prices fell again last year. ")
    \o Str("Many homes now install them on the roof. Experts expect more growth soon.")

(***************************************************************************)
(* Texts validateContent is called with, and texts appended to them.       *)
(***************************************************************************)

\* The words of a text as the repetition check sees them.
lowerWords(text) ==
  SelectSeq(Split(ToLowerCase(text), WhiteSpace), LAMBDA word : Len(word) > 0)

\* u is made of words that t does not have.
newWords(t, u) == Elements(lowerWords(u)) \cap Elements(lowerWords(t)) = {}

\* u is organised in sentences: it is not blank and ends with . ! or ?
sentenceStructured(u) == Trim(u) # <<>> /\ Trim(u)[Len(Trim(u))] \in SentenceEnd

\* No word occurs twice in u.
pairwiseDistinct(u) == Cardinality(Elements(lowerWords(u))) = Len(lowerWords(u))

\* t and u meet at a word boundary: t ends with a word, u starts with white space.
wordBoundary(t, u) ==
  /\ t = <<>> \/ t[Len(t)] \notin WhiteSpace
  /\ u # <<>> /\ u[1] \in WhiteSpace

QualityTexts ==
  { <<>>, MEDIUM_TEXT, LONG_TEXT, Str("x x x x x x "), Str("ab ab ab ab ab a"),
    Str("Open the menu"), Str("menu menu menu menu") }

Appendices ==
  { Str(" Quiet rivers wander slowly. Golden leaves drift downward. ")
      \o Str("Tiny sparrows gather nearby."),
    Str(" A footer was repainted yesterday."),
    Str("b c."),
    Str(" Yesterday."),
    Str(" Ha ha ha ha ha ha ha ha ha ha ha ha ha ha ha ha ha ha ha ha ha ha ha ha ha ha ha.") }

MinLengths == {minContentLength, 2 * minContentLength}

(***************************************************************************)
(* Inputs of the summarize pipeline.                                       *)
(***************************************************************************)

\* Five prose sentences; the strongest one (two important terms) comes last.
ART_PROSE ==
  Str("AI is transforming healthcare. Hospitals adopt the new tools now. ")
    \o Str("Doctors welcome the change. Nurses were trained last year. ")
    \o Str("Researchers say the key benefit is faster diagnosis.")

\* Six bulleted paragraphs, joined the way extractContent joins paragraphs.
ART_BULLETS ==
  Str("- Wash your hands before cooking.\n\n- Keep raw meat away from salad.\n\n")
    \o Str("- Cook chicken until fully done.\n\n- Chill leftovers within two hours.\n\n")
    \o Str("- Label every jar with a date.\n\n- Clean the counter after each task.")

\* Eleven fragments, none of them longer than 15 characters.
ART_FRAGMENTS ==
  Str("It was good. We saw it. He ran far. She sat down. They ate up. You can go. ")
    \o Str("I am here. Hi there all. Ok now then. Do not stop. Go home now.")

\* The texts scrapeBlogContent hands to the handler (each passes validateContent).
Articles == {ART_PROSE, ART_BULLETS, ART_FRAGMENTS}

\* "yeh aik achha khulasa hai" followed by the Urdu full stop
URDU_SENTENCE ==
  <<1740, 1729, 32, 1575, 1740, 1705, 32, 1575, 1670, 1726, 1575, 32,
    1582, 1604, 1575, 1589, 1729, 32, 1729, 1746, 1748>>

\* What the hosted chat call may answer to the summary prompt.
SummaryReplies ==
  { <<>>,
    Str("SUMMARY: AI helps doctors work faster.\nKEY POINTS:\n- faster diagnosis\n* better care"),
    Str("I am sorry, I cannot help with that request."),
    Str("SUMMARY: Kitchen rules.\nKEY POINTS:\n- one\n- two\n- three\n- four\n- five\n- six\n- seven"),
    Str("KEY POINTS:\n- only points here") }

\* What the hosted chat call may answer to the translation prompt.
TranslationReplies ==
  { <<>>,
    Str("This is the summary in English words."),
    URDU_SENTENCE,
    TRANSLATION_PREFIXES[2] \o <<32>> \o URDU_SENTENCE,
    Str("Summary: ") \o URDU_SENTENCE \o Str("\nHope this helps") }

(***************************************************************************)
(* State of one run of the summarize handler, and of the pure functions    *)
(* the other specifications apply to their inputs.                         *)
(***************************************************************************)

VARIABLES
  pc,               \* position of the handler, or "input"/"applied"/"thrown" for a function
  available,        \* cohereClient !== null
  url,              \* the url field of the request body: "", "not a url" or a valid url
  content,          \* scrapedContent.content, or the input of a pure function
  summaryPath,      \* which code produced summaryResult
  summaryReply,     \* the text the hosted chat call answered to the summary prompt
  summaryResult,    \* the SummaryResult of generateSummary
  selection,        \* the scored sentences generateExtractiveSummary joined
  attempt,          \* loop counter of translateWithRetry
  delays,           \* the delays translateWithRetry has waited, in ms
  translationPath,  \* which code produced summaryUrdu
  translationReply, \* the text the hosted chat call answered to the translation prompt
  summaryUrdu,      \* the string translateToUrdu resolved to
  saveResult,       \* the DatabaseResult of saveToBothDatabases
  response,         \* the JSON response of the handler
  chatCalls,        \* how many times the hosted chat endpoint has been called
  thrown,           \* the message of the Error a function call ended with, or <<>>
  document,         \* the document the last axios.get of scrapeContent fetched
  scrapeAttempt,    \* loop counter of scrapeContent
  scrapeLog,        \* what scrapeContent has done so far: fetch, parse, validate, wait
  lastError,        \* lastError?.message in scrapeContent
  scraped,          \* the ScrapedContent scrapeContent resolved to
  originalText,     \* first argument of validateUrduTranslation
  candidate,        \* second argument of validateUrduTranslation
  minQualityScore,  \* third argument of validateUrduTranslation, in hundredths
  validation,       \* the result of validateUrduTranslation
  calls,            \* the library calls made one after another, each with its result
  batch,            \* the batch scrapeMultiple or translateMultiple is working on
  mongoClient,      \* the module-level MongoClient of utils/database: its topology
  saves,            \* the saveFullTextToMongoDB calls running side by side
  page,             \* the state of the main page and the position of handleSummarize
  batchOp           \* the batchOperation call: its arguments, loop index and results

vars ==
  <<pc, available, url, content, summaryPath, summaryReply, summaryResult, selection,
    attempt, delays, translationPath, translationReply, summaryUrdu, saveResult,
    response, chatCalls, thrown, document, scrapeAttempt, scrapeLog, lastError, scraped,
    originalText, candidate, minQualityScore, validation, calls, batch,
    mongoClient, saves, page, batchOp>>

\* The variables of the pages and of the database helpers.
appVars == <<mongoClient, saves, page, batchOp>>

\* The variables only validateUrduTranslation's specification changes.
validatorVars == <<originalText, candidate, minQualityScore, validation>>

\* The variables only the specifications of single library functions change.
libraryVars == <<thrown, document, scrapeAttempt, scrapeLog, lastError, scraped>>

\* The variables of scrapeContent.
scraperVars == <<document, scrapeAttempt, scrapeLog, lastError, scraped>>

\* The variables of the summarize handler.
handlerVars ==
  <<available, url, content, summaryPath, summaryReply, summaryResult, selection, attempt,
    delays, translationPath, translationReply, summaryUrdu, saveResult, response,
    chatCalls>>

\* No batch call has been made.
NoBatch == [fn |-> "none", items |-> <<>>, order |-> <<>>, results |-> <<>>]

NoScrape == [content |-> <<>>, strategy |-> "none", wordCount |-> 0]

NoSummary == [summary |-> <<>>, keyPoints |-> <<>>, wordCount |-> 0, originalLength |-> 0]

NoSave == [success |-> FALSE, mongoId |-> <<>>, supabaseId |-> <<>>, errors |-> <<>>]

NoResponse ==
  [status |-> 0, success |-> FALSE, error |-> "", summary |-> <<>>, summaryUrdu |-> <<>>,
   keyPoints |-> <<>>, mongoId |-> <<>>, supabaseId |-> <<>>]

NoValidation == [isValid |-> FALSE, confidence |-> 0, issues |-> <<>>]

\* NextResponse.json({ error, ... }, { status })
errorResponse(status, error) == [NoResponse EXCEPT !.status = status, !.error = error]

\* A handler that reports the outcome of persistence as its own.
successResponseIfSaved(result, urdu, saved) ==
  [status |-> IF saved.success THEN 200 ELSE 500, success |-> saved.success,
   error |-> IF saved.success THEN "" ELSE "Failed to process blog post",
   summary |-> result.summary, summaryUrdu |-> urdu, keyPoints |-> result.keyPoints,
   mongoId |-> saved.mongoId, supabaseId |-> saved.supabaseId]

\* NextResponse.json({ success: true, data: { ... } })
successResponse(result, urdu, saved) ==
  [status |-> 200, success |-> TRUE, error |-> "", summary |-> result.summary,
   summaryUrdu |-> urdu, keyPoints |-> result.keyPoints,
   mongoId |-> saved.mongoId, supabaseId |-> saved.supabaseId]

\* The handler has not run.
HandlerIdle ==
  /\ url = <<>>
  /\ summaryPath = "none" /\ summaryReply = <<>> /\ summaryResult = NoSummary
  /\ selection = <<>>
  /\ attempt = 1 /\ delays = <<>>
  /\ translationPath = "none" /\ translationReply = <<>> /\ summaryUrdu = <<>>
  /\ saveResult = NoSave /\ response = NoResponse
  /\ chatCalls = 0

\* batchOperation has not been called.
NoBatchOp ==
  [pc |-> "none", operations |-> 0, batchSize |-> 0, i |-> 0, pending |-> {},
   settled |-> {}, results |-> <<>>]

EmptySummary == [english |-> <<>>, urdu |-> <<>>]

\* The useState values of BlogSummarizerPage on mount; at is the await
\* handleSummarize is waiting at, "none" when it is not running.
NoPage ==
  [url |-> <<>>, loading |-> FALSE, error |-> "", summary |-> EmptySummary,
   step |-> "idle", progress |-> 0, at |-> "none",
   content |-> <<>>, englishSummary |-> <<>>, urduSummary |-> <<>>]

\* No page is open and no database helper is running.
AppIdle ==
  /\ mongoClient = "new"
  /\ saves = <<>>
  /\ page = NoPage
  /\ batchOp = NoBatchOp

\* No library function has been called on its own.
LibraryIdle ==
  /\ calls = <<>>
  /\ batch = NoBatch
  /\ thrown = <<>>
  /\ document = <<>> /\ scrapeAttempt = 1 /\ scrapeLog = <<>> /\ lastError = <<>>
  /\ scraped = NoScrape
  /\ AppIdle

\* validateUrduTranslation has not been called.
ValidatorIdle ==
  /\ originalText = <<>> /\ candidate = <<>>
  /\ minQualityScore = DEFAULT_MIN_QUALITY /\ validation = NoValidation

Init ==
  /\ pc = "request"
  /\ available \in BOOLEAN
  /\ content = <<>>
  /\ HandlerIdle
  /\ ValidatorIdle
  /\ LibraryIdle

(***************************************************************************)
(* POST /api/summarize, one action per awaited step.                       *)
(***************************************************************************)

Urls == {<<>>, Str("not a url"), Str("https://blog.example/post")}

\* new URL(url) succeeds: the text opens with a scheme (letters, then a colon)
parsesAsUrl(u) ==
  \E i \in 2..Len(u) :
    /\ u[i] = 58
    /\ \A j \in 1..(i - 1) : u[j] \in (65..90) \cup (97..122)

\* const { url } = await request.json(), and the two checks on it
ReceiveRequest ==
  /\ pc = "request"
  /\ \E u \in Urls :
       /\ url' = u
       /\ IF u = <<>>
          THEN pc' = "done" /\ response' = errorResponse(400, "URL is required")
          ELSE IF ~parsesAsUrl(u)
          THEN pc' = "done" /\ response' = errorResponse(400, "Invalid URL format")
          ELSE pc' = "scrape" /\ response' = response
  /\ UNCHANGED <<available, content, summaryPath, summaryReply, summaryResult, selection,
                 attempt, delays, translationPath, translationReply, summaryUrdu,
                 saveResult, chatCalls,
                 validatorVars, batch, calls, libraryVars, appVars>>

\* await scrapeBlogContent(url): the scraper gives up, or hands over a text
ScrapeFails ==
  /\ pc = "scrape"
  /\ pc' = "done"
  /\ response' = errorResponse(500, "Failed to process blog post")
  /\ UNCHANGED <<available, url, content, summaryPath, summaryReply, summaryResult,
                 selection, attempt, delays, translationPath, translationReply,
                 summaryUrdu, saveResult, chatCalls,
                 validatorVars, batch, calls, libraryVars, appVars>>

ScrapeSucceeds ==
  /\ pc = "scrape"
  /\ content' \in Articles
  /\ pc' = "summarize"
  /\ UNCHANGED <<available, url, summaryPath, summaryReply, summaryResult, selection,
                 attempt, delays, translationPath, translationReply, summaryUrdu,
                 saveResult, response, chatCalls,
                 validatorVars, batch, calls, libraryVars, appVars>>

\* await generateSummary(content) with the hosted client missing:
\* cohereService.generateSummary throws and the catch summarizes extractively
SummarizeUnavailable ==
  /\ pc = "summarize" /\ ~IsBlank(content)
  /\ ~available
  /\ summaryPath' = "extractive"
  /\ summaryResult' = generateExtractiveSummary(content)
  /\ selection' = selectedSentencesOf(content)
  /\ pc' = "translate"
  /\ UNCHANGED <<available, url, content, summaryReply, attempt, delays, translationPath,
                 translationReply, summaryUrdu, saveResult, response, chatCalls,
                 validatorVars, batch, calls, libraryVars, appVars>>

\* ... with the chat call throwing: the service's own catch answers
SummarizeChatThrows ==
  /\ pc = "summarize" /\ ~IsBlank(content)
  /\ available
  /\ summaryPath' = "serviceFallback"
  /\ summaryResult' = generateFallbackSummary(content)
  /\ pc' = "translate"
  /\ chatCalls' = chatCalls + 1
  /\ UNCHANGED <<available, url, content, summaryReply, selection, attempt, delays,
                 translationPath, translationReply, summaryUrdu, saveResult, response,
                 validatorVars, batch, calls, libraryVars, appVars>>

\* ... with the chat call answering: the answer is parsed
SummarizeHosted ==
  /\ pc = "summarize" /\ ~IsBlank(content)
  /\ available
  /\ \E reply \in SummaryReplies :
       /\ summaryReply' = reply
       /\ summaryResult' = hostedSummary(content, reply)
  /\ summaryPath' = "hosted"
  /\ pc' = "translate"
  /\ chatCalls' = chatCalls + 1
  /\ UNCHANGED <<available, url, content, selection, attempt, delays, translationPath,
                 translationReply, summaryUrdu, saveResult, response, validatorVars, batch, calls, libraryVars,
                 appVars>>

\* A wait that does not grow with the attempts.
unscaledWait(attemptNumber) == retryDelay

\* this.retryDelay * attempt
retryWait(attemptNumber) == retryDelay * attemptNumber

\* await translateToUrdu(summaryResult.summary): one pass of the loop of
\* translateWithRetry with the hosted client missing. translateToUrdu of the
\* service throws; the loop waits and tries again, and after the last attempt
\* answers with the service's fallback translation.
TranslateUnavailable ==
  /\ pc = "translate" /\ ~IsBlank(summaryResult.summary)
  /\ ~available
  /\ attempt <= maxRetries
  /\ IF attempt < maxRetries
     THEN /\ delays' = Append(delays, retryWait(attempt))
          /\ attempt' = attempt + 1
          /\ UNCHANGED <<pc, translationPath, summaryUrdu>>
     ELSE /\ translationPath' = "exhausted"
          /\ summaryUrdu' = generateFallbackTranslation(summaryResult.summary)
          /\ pc' = "save"
          /\ UNCHANGED <<attempt, delays>>
  /\ UNCHANGED <<available, url, content, summaryPath, summaryReply, summaryResult,
                 selection, translationReply, saveResult, response, chatCalls,
                 validatorVars, batch, calls, libraryVars, appVars>>

\* ... with the chat call throwing: the service's own catch answers, on the
\* first attempt
TranslateChatThrows ==
  /\ pc = "translate" /\ ~IsBlank(summaryResult.summary)
  /\ available
  /\ translationPath' = "chatFailed"
  /\ summaryUrdu' = generateFallbackTranslation(summaryResult.summary)
  /\ pc' = "save"
  /\ chatCalls' = chatCalls + 1
  /\ UNCHANGED <<available, url, content, summaryPath, summaryReply, summaryResult,
                 selection, attempt, delays, translationReply, saveResult, response,
                 validatorVars, batch, calls, libraryVars, appVars>>

\* ... with the chat call answering: the answer is cleaned, validated and
\* post-processed
TranslateHosted ==
  /\ pc = "translate" /\ ~IsBlank(summaryResult.summary)
  /\ available
  /\ \E reply \in TranslationReplies :
       /\ translationReply' = reply
       /\ summaryUrdu' = hostedTranslation(summaryResult.summary, reply)
  /\ translationPath' = "hosted"
  /\ pc' = "save"
  /\ chatCalls' = chatCalls + 1
  /\ UNCHANGED <<available, url, content, summaryPath, summaryReply, summaryResult,
                 selection, attempt, delays, saveResult, response, validatorVars, batch, calls, libraryVars,
                 appVars>>

\* What insertOne and the Supabase insert may do: fail, or store under an id.
MongoOutcomes == {<<>>, <<Str("64f0c1e2a7")>>}

SupabaseOutcomes == {<<>>, <<0>>, <<7>>}

\* saveToBothDatabases: both stores are tried; a failure becomes an entry of
\* errors, never an exception
saveToBothDatabases(mongo, supabase) ==
  LET \* mongoResult.success && mongoResult.data : a non-empty string
      mongoId == IF mongo # <<>> /\ mongo[1] # <<>> THEN mongo ELSE <<>>
      \* supabaseResult.success && supabaseResult.data : a number other than 0
      supabaseId == IF supabase # <<>> /\ supabase[1] # 0 THEN supabase ELSE <<>>
  IN [success |-> mongoId # <<>> \/ supabaseId # <<>>,
      mongoId |-> mongoId,
      supabaseId |-> supabaseId,
      errors |-> (IF mongo = <<>> THEN <<"MongoDB">> ELSE <<>>)
                   \o (IF supabase = <<>> THEN <<"Supabase">> ELSE <<>>)]

\* await databaseService.saveToBothDatabases(...)
Save ==
  /\ pc = "save"
  /\ \E mongo \in MongoOutcomes, supabase \in SupabaseOutcomes :
       saveResult' = saveToBothDatabases(mongo, supabase)
  /\ pc' = "respond"
  /\ UNCHANGED <<available, url, content, summaryPath, summaryReply, summaryResult,
                 selection, attempt, delays, translationPath, translationReply,
                 summaryUrdu, response, chatCalls,
                 validatorVars, batch, calls, libraryVars, appVars>>

\* return NextResponse.json({ success: true, data })
Respond ==
  /\ pc = "respond"
  /\ response' = successResponse(summaryResult, summaryUrdu, saveResult)
  /\ pc' = "done"
  /\ UNCHANGED <<available, url, content, summaryPath, summaryReply, summaryResult,
                 selection, attempt, delays, translationPath, translationReply,
                 summaryUrdu, saveResult, chatCalls,
                 validatorVars, batch, calls, libraryVars, appVars>>

Next ==
  \/ ReceiveRequest
  \/ ScrapeFails
  \/ ScrapeSucceeds
  \/ SummarizeUnavailable
  \/ SummarizeChatThrows
  \/ SummarizeHosted
  \/ TranslateUnavailable
  \/ TranslateChatThrows
  \/ TranslateHosted
  \/ Save
  \/ Respond

Spec == Init /\ [][Next]_vars

(***************************************************************************)
(* generateExtractiveSummary applied to texts built from a pool of         *)
(* segments.                                                               *)
(***************************************************************************)

\* The longest text is MaxSegs segments long.
MaxSegs == 3

\* Two plain sentences; one sentence with two important terms; a fragment
\* too short to be a sentence; a bulleted line.
Segments ==
  << Str("AI is transforming healthcare. Hospitals adopt the new tools now. "),
     Str("Researchers say the key benefit is faster diagnosis. "),
     Str("Hi there. "),
     Str("* Experts report the main findings in this study.\n") >>

EXAMPLE ==
  Str("AI is transforming healthcare. Researchers say the key benefit is faster diagnosis.")

\* The empty text and two texts of white space only.
BlankInputs == {<<>>, Str("   "), Str(" \n\t ")}

ExtractiveInputs ==
  {EXAMPLE} \cup BlankInputs \cup
  { Join([i \in DOMAIN choice |-> Segments[choice[i]]], <<>>) :
      choice \in UNION {[1..n -> DOMAIN Segments] : n \in 1..MaxSegs} }

InitExtractive ==
  /\ pc = "input"
  /\ available \in BOOLEAN
  /\ content \in ExtractiveInputs
  /\ HandlerIdle
  /\ ValidatorIdle
  /\ LibraryIdle

\* 'Content is required for summarization'
CONTENT_REQUIRED == Str("Content is required for summarization")

\* generateExtractiveSummary(content) with blank content: the guard throws
ExtractiveThrows ==
  /\ pc = "input" /\ IsBlank(content)
  /\ thrown' = CONTENT_REQUIRED
  /\ pc' = "thrown"
  /\ UNCHANGED <<available, url, content, summaryPath, summaryReply, summaryResult,
                 selection, attempt, delays, translationPath, translationReply,
                 summaryUrdu, saveResult, response, chatCalls, validatorVars, batch, calls, scraperVars,
                 appVars>>

\* generateExtractiveSummary(content) with any other content
ApplyExtractive ==
  /\ pc = "input" /\ ~IsBlank(content)
  /\ summaryPath' = "extractive"
  /\ summaryResult' = generateExtractiveSummary(content)
  /\ selection' = selectedSentencesOf(content)
  /\ pc' = "applied"
  /\ UNCHANGED <<available, url, content, summaryReply, attempt, delays, translationPath,
                 translationReply, summaryUrdu, saveResult, response, chatCalls,
                 validatorVars, batch, calls, libraryVars, appVars>>

NextExtractive ==
  \/ ExtractiveThrows
  \/ ApplyExtractive

SpecExtractive == InitExtractive /\ [][NextExtractive]_vars

(***************************************************************************)
(* validateUrduTranslation applied to candidates built from a pool of      *)
(* tokens.                                                                 *)
(***************************************************************************)

\* The longest candidate is MaxTokens tokens long.
MaxTokens == 3

\* An Urdu word; an Urdu word closed by the Urdu full stop; an English word;
\* two numbers; a short English word.
Tokens ==
  << <<1740, 1729>>,
     <<1582, 1604, 1575, 1589, 1729, 1748>>,
     Str("summary"),
     Str("12"),
     Str("56789"),
     Str("the") >>

Candidates ==
  { Join([i \in DOMAIN choice |-> Tokens[choice[i]]], <<32>>) :
      choice \in UNION {[1..n -> DOMAIN Tokens] : n \in 0..MaxTokens} }

Originals == {Str("Summary"), Str("This short summary of the article has exactly ten words.")}

\* minQualityScore, in hundredths
MinScores == {0, 30, 50, 100}

InitValidate ==
  /\ pc = "input"
  /\ available = FALSE
  /\ content = <<>>
  /\ HandlerIdle
  /\ originalText \in Originals
  /\ candidate \in Candidates
  /\ minQualityScore \in MinScores
  /\ validation = NoValidation
  /\ LibraryIdle

\* validateUrduTranslation(originalText, candidate, minQualityScore)
ApplyValidate ==
  /\ pc = "input"
  /\ validation' = validateUrduTranslation(originalText, candidate, minQualityScore)
  /\ pc' = "applied"
  /\ UNCHANGED <<available, url, content, summaryPath, summaryReply, summaryResult,
                 selection, attempt, delays, translationPath, translationReply,
                 summaryUrdu, saveResult, response, chatCalls, originalText,
                 candidate, minQualityScore, calls, batch, libraryVars, appVars>>

NextValidate == ApplyValidate

SpecValidate == InitValidate /\ [][NextValidate]_vars

(***************************************************************************)
(* scrapeContent(url) with the default configuration: the retry loop       *)
(* around attemptScrape, over the documents axios.get may fetch.           *)
(***************************************************************************)

\* defaultConfig.maxRetries
scrapeMaxRetries == 3

\* The longest document is MaxBlocks blocks long.
MaxBlocks == 2

\* A paragraph inside the footer of an article; one inside an aside of a div;
\* one inside a top-level nav; a short paragraph; a long article body under
\* .content; a long section; a comments region inside a div.
Blocks ==
  << Under(Element("article", {}), Under(Element("footer", {}), Paragraph(MEDIUM_TEXT))),
     Under(Element("div", {}), Under(Element("aside", {}), Paragraph(MEDIUM_TEXT))),
     Under(Element("nav", {}), Paragraph(MEDIUM_TEXT)),
     Paragraph(SHORT_TEXT),
     Under(Element("div", {"content"}), Paragraph(LONG_TEXT)),
     Under(Element("section", {}), Beside(Paragraph(LONG_TEXT), Paragraph(SHORT_TEXT))) >>

\* The blocks chosen, side by side under the root.
Row(choice) ==
  LET RECURSIVE Upto(_)
      Upto(k) == IF k = 1 THEN Blocks[choice[1]]
                 ELSE Beside(Upto(k - 1), Blocks[choice[k]])
  IN Upto(Len(choice))

Documents ==
  { Row(choice) : choice \in UNION {[1..n -> DOMAIN Blocks] : n \in 1..MaxBlocks} }

ScrapeUrls == Urls \cup {Str("ftp://files.example/post")}

\* isValidUrl: new URL(url) succeeds and the protocol is http: or https:
isValidUrl(u) ==
  /\ parsesAsUrl(u)
  /\ StartsWith(ToLowerCase(u), Str("http:")) \/ StartsWith(ToLowerCase(u), Str("https:"))

\* A delay that does not grow with the attempts.
fixedDelay(attemptNumber) == 1000

\* 1000 * attempt
backoffDelay(attemptNumber) == 1000 * attemptNumber

\* attemptScrape once axios.get has answered with a document: what it did
\* after the fetch, and the content it returns or the message it throws.
\* The metadata holds the word count of the content (title, description,
\* author and date left out).
parsedAttempt(extracted, quality) ==
  IF extracted.error # <<>>
  THEN [steps |-> <<"parse">>, error |-> extracted.error, result |-> NoScrape]
  ELSE IF poorQuality(quality)
  THEN [steps |-> <<"parse", "validate">>, error |-> poorQualityMessage(quality),
        result |-> NoScrape]
  ELSE [steps |-> <<"parse", "validate", "metadata">>, error |-> <<>>,
        result |-> [content |-> extracted.content, strategy |-> extracted.strategy,
                    wordCount |-> countWords(extracted.content)]]

validatedExtraction(extracted) ==
  parsedAttempt(extracted, validateContent(extracted.content, minContentLength))

attemptScrape(fetched) == validatedExtraction(extractContent(fetched))

\* The entries an attempt adds to the log.
logged(steps) == [k \in 1..Len(steps) |-> <<steps[k], scrapeAttempt>>]

InitScrape ==
  /\ pc = "call"
  /\ available = TRUE
  /\ url \in ScrapeUrls
  /\ content = <<>>
  /\ summaryPath = "none" /\ summaryReply = <<>> /\ summaryResult = NoSummary
  /\ selection = <<>>
  /\ attempt = 1 /\ delays = <<>>
  /\ translationPath = "none" /\ translationReply = <<>> /\ summaryUrdu = <<>>
  /\ saveResult = NoSave /\ response = NoResponse
  /\ chatCalls = 0
  /\ ValidatorIdle
  /\ LibraryIdle

\* if (!this.isValidUrl(url)) throw new Error('Invalid URL provided')
ScrapeRejectsUrl ==
  /\ pc = "call" /\ ~isValidUrl(url)
  /\ thrown' = Str("Invalid URL provided")
  /\ pc' = "thrown"
  /\ UNCHANGED <<handlerVars, validatorVars, batch, calls, scraperVars, appVars>>

ScrapeEntersLoop ==
  /\ pc = "call" /\ isValidUrl(url)
  /\ pc' = "attempt"
  /\ UNCHANGED <<handlerVars, validatorVars, batch, calls, libraryVars, appVars>>

\* `Failed to scrape content after ${scrapeConfig.maxRetries} attempts. Last error: `
SCRAPE_FAILED ==
  Str("Failed to scrape content after ") \o ToDecimal(scrapeMaxRetries)
    \o Str(" attempts. Last error: ")

\* The message of the Error axios.get rejects with.
NETWORK_ERROR == Str("Network Error")

\* The catch of the loop, then its exit when that was the last attempt.
AttemptFailed(message) ==
  /\ lastError' = message
  /\ IF scrapeAttempt < scrapeMaxRetries
     THEN pc' = "delay" /\ thrown' = thrown
     ELSE /\ pc' = "thrown"
          /\ thrown' = SCRAPE_FAILED \o message
  /\ UNCHANGED <<scrapeAttempt, scraped>>

\* await this.attemptScrape(url, scrapeConfig): axios.get rejects
FetchFails ==
  /\ pc = "attempt" /\ scrapeAttempt <= scrapeMaxRetries
  /\ scrapeLog' = scrapeLog \o logged(<<"fetch">>)
  /\ AttemptFailed(NETWORK_ERROR)
  /\ UNCHANGED <<document, handlerVars, validatorVars, batch, calls, appVars>>

\* ... axios.get answers with a document
FetchAnswers ==
  /\ pc = "attempt" /\ scrapeAttempt <= scrapeMaxRetries
  /\ document' \in Documents
  /\ scrapeLog' = scrapeLog \o logged(<<"fetch">>)
  /\ pc' = "fetched"
  /\ UNCHANGED <<scrapeAttempt, lastError, scraped, thrown, handlerVars, validatorVars, batch, calls,
                 appVars>>

\* ... and extraction or the quality check throws
AttemptThrows ==
  /\ pc = "fetched"
  /\ \E attempted \in {attemptScrape(document)} :
       /\ attempted.error # <<>>
       /\ scrapeLog' = scrapeLog \o logged(attempted.steps)
       /\ AttemptFailed(attempted.error)
  /\ UNCHANGED <<document, handlerVars, validatorVars, batch, calls, appVars>>

\* ... or the content passes: scrapeContent returns
AttemptSucceeds ==
  /\ pc = "fetched"
  /\ \E attempted \in {attemptScrape(document)} :
       /\ attempted.error = <<>>
       /\ scrapeLog' = scrapeLog \o logged(attempted.steps)
       /\ scraped' = attempted.result
  /\ pc' = "returned"
  /\ UNCHANGED <<document, scrapeAttempt, lastError, thrown, handlerVars, validatorVars, batch, calls,
                 appVars>>

\* await this.delay(1000 * attempt), then the next pass of the loop
Backoff ==
  /\ pc = "delay"
  /\ scrapeLog' = Append(scrapeLog, <<"wait", backoffDelay(scrapeAttempt)>>)
  /\ scrapeAttempt' = scrapeAttempt + 1
  /\ pc' = "attempt"
  /\ UNCHANGED <<document, lastError, scraped, thrown, handlerVars, validatorVars, batch, calls,
                 appVars>>

NextScrape ==
  \/ ScrapeRejectsUrl
  \/ ScrapeEntersLoop
  \/ FetchFails
  \/ FetchAnswers
  \/ AttemptThrows
  \/ AttemptSucceeds
  \/ Backoff

SpecScrape == InitScrape /\ [][NextScrape]_vars

(***************************************************************************)
(* validateContent called on a text, then on the text with more text       *)
(* appended to it.                                                         *)
(***************************************************************************)

\* The longest run of calls.
MaxCalls == 2

\* One call: the function, its arguments, its result, and whether the hosted
\* client was there when it ran.
Call(fn, args, result) ==
  [fn |-> fn, args |-> args, result |-> result, hosted |-> available]

InitQuality ==
  /\ pc = "content"
  /\ available = TRUE
  /\ url = <<>>
  /\ content \in QualityTexts
  /\ summaryPath = "none" /\ summaryReply = <<>> /\ summaryResult = NoSummary
  /\ selection = <<>>
  /\ attempt = 1 /\ delays = <<>>
  /\ translationPath = "none" /\ translationReply = <<>> /\ summaryUrdu = <<>>
  /\ saveResult = NoSave /\ response = NoResponse
  /\ chatCalls = 0
  /\ ValidatorIdle
  /\ LibraryIdle

\* validateContent(content, minLength), with the minLength of the call before
ValidateContent ==
  /\ pc \in {"content", "appended"}
  /\ \E minLength \in MinLengths :
       /\ calls # <<>> => minLength = calls[Len(calls)].args[2]
       /\ calls' = Append(calls, Call("validateContent", <<content, minLength>>,
                                      validateContent(content, minLength)))
  /\ pc' = "validated"
  /\ UNCHANGED <<handlerVars, validatorVars, batch, libraryVars, appVars>>

\* The caller appends more text to the content.
AppendText ==
  /\ pc = "validated" /\ Len(calls) < MaxCalls
  /\ \E u \in Appendices : content' = content \o u
  /\ pc' = "appended"
  /\ UNCHANGED <<available, url, summaryPath, summaryReply, summaryResult, selection,
                 attempt, delays, translationPath, translationReply, summaryUrdu,
                 saveResult, response, chatCalls, validatorVars, batch, calls, libraryVars,
                 appVars>>

NextQuality ==
  \/ ValidateContent
  \/ AppendText

SpecQuality == InitQuality /\ [][NextQuality]_vars

(***************************************************************************)
(* The two validators side by side: validateContent on a text, or          *)
(* validateUrduTranslation on a candidate.                                 *)
(***************************************************************************)

InitScores == InitQuality \/ InitValidate

NextScores == NextQuality \/ NextValidate

SpecScores == InitScores /\ [][NextScores]_vars

(***************************************************************************)
(* postProcessUrduTranslation applied to a text, then to its own result.   *)
(***************************************************************************)

\* The longest input has MaxWords tokens.
MaxWords == 3

\* Tokens of the inputs: one Urdu letter, two Urdu letters, a Latin word, a
\* word closed by the Urdu full stop, a word closed by two marks in a row.
UrduTokens ==
  << <<1575>>, <<1576, 1580>>, Str("ok"), <<1729, 1746, FULL_STOP>>,
     <<1729, 1746, QUESTION_MARK, EXCLAMATION>> >>

\* The tokens chosen, separated by single spaces.
Spaced(choice) == Join([k \in 1..Len(choice) |-> UrduTokens[choice[k]]], Str(" "))

\* The inputs normalizeUrduText leaves unchanged.
NormalizedInputs ==
  { x \in { Spaced(choice) :
              choice \in UNION {[1..n -> DOMAIN UrduTokens] : n \in 1..MaxWords} } :
      normalizeUrduText(x) = x }

InitPostProcess ==
  /\ pc = "input"
  /\ available = TRUE
  /\ url = <<>>
  /\ content \in NormalizedInputs
  /\ summaryPath = "none" /\ summaryReply = <<>> /\ summaryResult = NoSummary
  /\ selection = <<>>
  /\ attempt = 1 /\ delays = <<>>
  /\ translationPath = "none" /\ translationReply = <<>> /\ summaryUrdu = <<>>
  /\ saveResult = NoSave /\ response = NoResponse
  /\ chatCalls = 0
  /\ ValidatorIdle
  /\ LibraryIdle

\* postProcessUrduTranslation(content); the result is the next content
PostProcess ==
  /\ pc \in {"input", "applied"} /\ Len(calls) < MaxCalls
  /\ calls' = Append(calls, Call("postProcessUrduTranslation", <<content>>,
                                 postProcessUrduTranslation(content)))
  /\ content' = postProcessUrduTranslation(content)
  /\ pc' = "applied"
  /\ UNCHANGED <<available, url, summaryPath, summaryReply, summaryResult, selection,
                 attempt, delays, translationPath, translationReply, summaryUrdu,
                 saveResult, response, chatCalls, validatorVars, batch, libraryVars,
                 appVars>>

NextPostProcess == PostProcess

SpecPostProcess == InitPostProcess /\ [][NextPostProcess]_vars

(***************************************************************************)
(* translateUsingDictionary called again and again while the hosted client *)
(* comes and goes.                                                         *)
(***************************************************************************)

\* The longest run of translations.
MaxTranslations == 3

DictionaryInputs ==
  { Str("the important data"),
    Str("AI is transforming healthcare. Researchers say the key benefit is faster diagnosis."),
    Str("Studies"), Str("   ") }

InitDictionary ==
  /\ pc = "input"
  /\ available \in BOOLEAN
  /\ url = <<>>
  /\ content = <<>>
  /\ summaryPath = "none" /\ summaryReply = <<>> /\ summaryResult = NoSummary
  /\ selection = <<>>
  /\ attempt = 1 /\ delays = <<>>
  /\ translationPath = "none" /\ translationReply = <<>> /\ summaryUrdu = <<>>
  /\ saveResult = NoSave /\ response = NoResponse
  /\ chatCalls = 0
  /\ ValidatorIdle
  /\ LibraryIdle

\* A translation that answers from the service's own table while the hosted
\* client is there.
TranslateDependingOnService ==
  /\ Len(calls) < MaxTranslations
  /\ \E text \in DictionaryInputs :
       /\ content' = text
       /\ calls' = Append(calls, Call("translateUsingDictionary", <<text>>,
                                      IF available THEN generateFallbackTranslation(text)
                                      ELSE translateUsingDictionary(text)))
  /\ pc' = "applied"
  /\ UNCHANGED <<available, url, summaryPath, summaryReply, summaryResult, selection,
                 attempt, delays, translationPath, translationReply, summaryUrdu,
                 saveResult, response, chatCalls, validatorVars, batch, libraryVars,
                 appVars>>

\* translateUsingDictionary(text)
TranslateWithDictionary ==
  /\ Len(calls) < MaxTranslations
  /\ \E text \in DictionaryInputs :
       /\ content' = text
       /\ calls' = Append(calls, Call("translateUsingDictionary", <<text>>,
                                      translateUsingDictionary(text)))
  /\ pc' = "applied"
  /\ UNCHANGED <<available, url, summaryPath, summaryReply, summaryResult, selection,
                 attempt, delays, translationPath, translationReply, summaryUrdu,
                 saveResult, response, chatCalls, validatorVars, batch, libraryVars,
                 appVars>>

\* The hosted client is lost, or configured again, between two calls.
ServiceChanges ==
  /\ pc = "applied" /\ Len(calls) < MaxTranslations
  /\ available' = ~available
  /\ pc' = "input"
  /\ UNCHANGED <<url, content, summaryPath, summaryReply, summaryResult, selection,
                 attempt, delays, translationPath, translationReply, summaryUrdu,
                 saveResult, response, chatCalls, validatorVars, batch, calls, libraryVars,
                 appVars>>

NextDictionary ==
  \/ TranslateWithDictionary
  \/ ServiceChanges

SpecDictionary == InitDictionary /\ [][NextDictionary]_vars

(***************************************************************************)
(* scrapeMultiple and translateMultiple: every item is started by the map, *)
(* Promise.allSettled waits, the items settle in any order, and the        *)
(* results are mapped to the array returned.                               *)
(***************************************************************************)

\* The longest batch.
MaxItems == 2

BatchUrls ==
  { Str("https://blog.example/post"), Str("https://news.example/a"), Str("not a url") }

BatchTexts == { Str("the important data"), Str("Studies"), Str("   ") }

\* One promise of the batch, before the map has reached it.
Item(input) == [input |-> input, state |-> "idle", value |-> <<>>, reason |-> <<>>]

Batches(fn, inputs) ==
  { [fn |-> fn, items |-> [k \in 1..Len(list) |-> Item(list[k])],
     order |-> <<>>, results |-> <<>>] :
      list \in UNION {[1..n -> inputs] : n \in 0..MaxItems} }

\* How the promise of scrapeContent(url) can settle.
scrapeOutcomes(u) ==
  IF ~isValidUrl(u)
  THEN { [state |-> "rejected", value |-> <<>>, reason |-> Str("Invalid URL provided")] }
  ELSE { [state |-> "fulfilled", value |-> [url |-> u, content |-> LONG_TEXT],
          reason |-> <<>>],
         [state |-> "rejected", value |-> <<>>, reason |-> SCRAPE_FAILED \o NETWORK_ERROR] }

\* How the promise of translateToUrdu(text) settles while the hosted client
\* is missing: it rejects a blank text; for any other text translateWithRetry
\* answers with the service's own fallback translation.
translateOutcomes(text) ==
  IF IsBlank(text)
  THEN { [state |-> "rejected", value |-> <<>>,
          reason |-> Str("Text is required for translation")] }
  ELSE { [state |-> "fulfilled", value |-> generateFallbackTranslation(text),
          reason |-> <<>>] }

outcomes(fn, input) ==
  IF fn = "scrapeMultiple" THEN scrapeOutcomes(input) ELSE translateOutcomes(input)

\* results.map callback: result.value, or new Error(result.reason), or
\* translateUsingDictionary(texts[index])
settledEntry(fn, item) ==
  IF item.state = "fulfilled" THEN item.value
  ELSE IF fn = "scrapeMultiple" THEN [error |-> Str("Error: ") \o item.reason]
  ELSE translateUsingDictionary(item.input)

\* The entries in the order in which the promises settled.
collectInSettleOrder(fn, items, order) ==
  [k \in 1..Len(order) |-> settledEntry(fn, items[order[k]])]

\* results.map((result, index) => ...): the entries in the order of the inputs
collectSettled(fn, items, order) ==
  [i \in 1..Len(items) |-> settledEntry(fn, items[i])]

allStarted(items) == \A i \in 1..Len(items) : items[i].state # "idle"

allSettled(items) == \A i \in 1..Len(items) : items[i].state \in {"fulfilled", "rejected"}

InitBatch ==
  /\ pc = "map"
  /\ available = FALSE
  /\ url = <<>>
  /\ content = <<>>
  /\ summaryPath = "none" /\ summaryReply = <<>> /\ summaryResult = NoSummary
  /\ selection = <<>>
  /\ attempt = 1 /\ delays = <<>>
  /\ translationPath = "none" /\ translationReply = <<>> /\ summaryUrdu = <<>>
  /\ saveResult = NoSave /\ response = NoResponse
  /\ chatCalls = 0
  /\ ValidatorIdle
  /\ calls = <<>>
  /\ batch \in Batches("scrapeMultiple", BatchUrls) \cup Batches("translateMultiple", BatchTexts)
  /\ thrown = <<>>
  /\ document = <<>> /\ scrapeAttempt = 1 /\ scrapeLog = <<>> /\ lastError = <<>>
  /\ scraped = NoScrape
  /\ AppIdle

\* urls.map(url => this.scrapeContent(url, config)) and
\* texts.map(text => translateToUrdu(text)): the next call is made
StartNext ==
  /\ pc = "map" /\ ~allStarted(batch.items)
  /\ \E i \in 1..Len(batch.items) :
       /\ batch.items[i].state = "idle"
       /\ \A j \in 1..(i - 1) : batch.items[j].state # "idle"
       /\ batch' = [batch EXCEPT !.items[i].state = "pending"]
  /\ UNCHANGED <<pc, handlerVars, validatorVars, calls, thrown, scraperVars, appVars>>

\* await Promise.allSettled(...)
AwaitAllSettled ==
  /\ pc = "map" /\ allStarted(batch.items)
  /\ pc' = "await"
  /\ UNCHANGED <<handlerVars, validatorVars, calls, batch, thrown, scraperVars, appVars>>

\* One of the pending promises settles.
Settle ==
  /\ pc = "await"
  /\ \E i \in 1..Len(batch.items) :
       /\ batch.items[i].state = "pending"
       /\ \E outcome \in outcomes(batch.fn, batch.items[i].input) :
            batch' = [batch EXCEPT !.items[i].state = outcome.state,
                                   !.items[i].value = outcome.value,
                                   !.items[i].reason = outcome.reason,
                                   !.order = Append(@, i)]
  /\ UNCHANGED <<pc, handlerVars, validatorVars, calls, thrown, scraperVars, appVars>>

\* return results.map(...)
Collect ==
  /\ pc = "await" /\ allSettled(batch.items)
  /\ batch' = [batch EXCEPT !.results = collectSettled(batch.fn, batch.items, batch.order)]
  /\ pc' = "resolved"
  /\ UNCHANGED <<handlerVars, validatorVars, calls, thrown, scraperVars, appVars>>

NextBatch ==
  \/ StartNext
  \/ AwaitAllSettled
  \/ Settle
  \/ Collect

SpecBatch == InitBatch /\ [][NextBatch]_vars

(***************************************************************************)
(* Properties of the handler (checked under Spec).                         *)
(***************************************************************************)

\* C1: in CohereService.translateToUrdu, a hosted response that holds no
\* Urdu-script character after cleaning is discarded: the text returned is
\* the fallback translation of the source text (as it is, or post-processed),
\* never the hosted response.
C1_NonUrduReplyIsReplaced ==
  (/\ translationPath = "hosted"
   /\ ~containsUrduScript(cleanTranslationResponse(translationReply)))
  => summaryUrdu \in
       { generateFallbackTranslation(summaryResult.summary),
         postProcessUrduTranslation(generateFallbackTranslation(summaryResult.summary)) }

\* C2: when the hosted translation fails (no client, or the chat call throws),
\* translateToUrdu of the translator module returns what
\* translateUsingDictionary returns for the same text.
C2_FailureGivesDictionaryTranslation ==
  translationPath \in {"chatFailed", "exhausted"}
  => summaryUrdu = translateUsingDictionary(summaryResult.summary)

\* C3: when the hosted summarizer fails (no client, the chat call throws, or
\* the response lacks the SUMMARY or the KEY POINTS section), generateSummary
\* returns the result of generateExtractiveSummary for the same content.
C3_FailureGivesExtractiveSummary ==
  (\/ summaryPath \in {"extractive", "serviceFallback"}
   \/ /\ summaryPath = "hosted"
      /\ \/ IndexOf(summaryReply, Str("SUMMARY:"), 1) = 0
         \/ IndexOf(summaryReply, Str("KEY POINTS:"), 1) = 0)
  => summaryResult = generateExtractiveSummary(content)

\* C4: for a non-blank article and any behaviour of the hosted service,
\* generateSummary followed by translateToUrdu raises no error and yields a
\* non-empty summary and a non-empty Urdu text.
C4_AlwaysSummaryAndUrdu ==
  /\ summaryPath # "none" => summaryResult.summary # <<>>
  /\ translationPath # "none" => summaryUrdu # <<>>
  /\ (pc = "done" /\ ~IsBlank(content)) => response.status = 200

\* C5: once scraping, summarization and translation have produced their
\* results, the handler answers success: true with the summary and the Urdu
\* text whatever persistence did; when both stores fail the answer is still
\* a success, with mongoId and supabaseId absent.
C5_PersistenceNeverFailsTheResponse ==
  (pc = "done" /\ translationPath # "none")
  => /\ response.status = 200
     /\ response.success
     /\ response.summary = summaryResult.summary
     /\ response.summaryUrdu = summaryUrdu
     /\ Len(saveResult.errors) = 2
          => response.mongoId = <<>> /\ response.supabaseId = <<>>

\* Both stores failed and the handler has answered.
C5_BothStoresFailed ==
  /\ pc = "done"
  /\ saveResult.errors = <<"MongoDB", "Supabase">>
  /\ ~saveResult.success
  /\ response.status = 200

\* C9: keyPoints has at most 5 entries in every SummaryResult, whichever path
\* produced it: the extractive summarizer, the parsed hosted response or the
\* hosted service's own fallback summary.
C9_AtMostFiveKeyPoints ==
  summaryPath # "none" => Len(summaryResult.keyPoints) <= 5

\* The extractive summarizer met more than five bullet points.
C9_SixBulletsCapped ==
  /\ summaryPath = "extractive"
  /\ Len(extractBulletPoints(content)) > 5
  /\ Len(summaryResult.keyPoints) = 5

(***************************************************************************)
(* Properties of generateExtractiveSummary (checked under SpecExtractive). *)
(***************************************************************************)

\* C7: generateExtractiveSummary never returns an empty summary, and for a
\* non-blank input without any qualifying sentence the summary is the
\* placeholder 'Unable to generate summary from provided content.'.
C7_PlaceholderWhenNoSentence ==
  pc = "applied"
  => /\ summaryResult.summary # <<>>
     /\ extractSentences(preprocessContent(content)) = <<>>
          => summaryResult.summary = PLACEHOLDER_SUMMARY

\* C8: the sentences generateExtractiveSummary selects stand in strictly
\* increasing original-index order, whatever their scores, and the summary
\* joins them in that order.
C8_SelectionKeepsDocumentOrder ==
  pc = "applied"
  => /\ \A i, j \in 1..Len(selection) :
          i < j => selection[i].index < selection[j].index
     /\ summaryResult.summary = joinSummary(selection)

\* Two sentences were selected and the later one scores higher.
C8_LaterSentenceScoresHigher ==
  /\ pc = "applied"
  /\ \E i, j \in 1..Len(selection) :
       i < j /\ selection[i].score < selection[j].score

\* C10 (as the code has it): for the example input the summary is the one
\* top-scored sentence, min(5, ceil(2 * 0.3)) = 1 of the two, closed by a
\* period, and keyPoints holds a sentence containing "key".
C10_ExampleKeepsOneSentence ==
  (pc = "applied" /\ content = EXAMPLE)
  => /\ summaryResult.summary =
          Str("Researchers say the key benefit is faster diagnosis.")
     /\ \E k \in 1..Len(summaryResult.keyPoints) :
          Includes(summaryResult.keyPoints[k], Str("key"))

\* The example has been summarized: two sentences scored, one selected.
C10_ExampleSummarized ==
  /\ pc = "applied" /\ content = EXAMPLE
  /\ Len(extractSentences(preprocessContent(content))) = 2
  /\ Len(selection) = 1

\* C10 (as stated): for the example input the summary contains both
\* sentences joined with ". " and ends in a period, and keyPoints holds a
\* sentence containing "key".
C10_ExampleKeepsBothSentences ==
  (pc = "applied" /\ content = EXAMPLE)
  => /\ Includes(summaryResult.summary,
                 Str("AI is transforming healthcare. Researchers say the key benefit is faster diagnosis"))
     /\ EndsWith(summaryResult.summary, Str("."))
     /\ \E k \in 1..Len(summaryResult.keyPoints) :
          Includes(summaryResult.keyPoints[k], Str("key"))

(***************************************************************************)
(* Property of validateUrduTranslation (checked under SpecValidate).       *)
(***************************************************************************)

\* C6: a candidate without any character of the five Urdu/Arabic ranges is
\* never valid, whatever its other metrics and whatever minQualityScore.
C6_NoUrduScriptIsInvalid ==
  (pc = "applied" /\ \A i \in 1..Len(candidate) : ~inUrduRange(candidate[i]))
  => ~validation.isValid

\* A candidate without Urdu script whose score reaches minQualityScore.
C6_ScoreReachedWithoutScript ==
  /\ pc = "applied"
  /\ candidate # <<>>
  /\ \A i \in 1..Len(candidate) : ~inUrduRange(candidate[i])
  /\ minQualityScore = DEFAULT_MIN_QUALITY
  /\ scoreAtLeast(validation.metrics, minQualityScore)
  /\ ~validation.isValid

(***************************************************************************)
(* Further properties of generateExtractiveSummary (under SpecExtractive). *)
(***************************************************************************)

\* C11: generateExtractiveSummary raises its input error exactly when the
\* input is empty or made of white space only; for every other input it
\* returns a SummaryResult, raises nothing and never calls the hosted service.
C11_ThrowsExactlyOnBlankInput ==
  pc \in {"applied", "thrown"}
  => /\ pc = "thrown" <=> \A i \in 1..Len(content) : content[i] \in WhiteSpace
     /\ pc = "thrown" => thrown = CONTENT_REQUIRED /\ summaryResult = NoSummary
     /\ pc = "applied" => /\ thrown = <<>>
                          /\ summaryResult.originalLength > 0
                          /\ chatCalls = 0

\* A white-space-only input was rejected while the hosted client was there.
C11_WhiteSpaceRejected ==
  /\ pc = "thrown" /\ content # <<>> /\ available
  /\ thrown = CONTENT_REQUIRED

\* The sentences generateExtractiveSummary scores for the content.
scoredOf(text) == scoreSentences(extractSentences(preprocessContent(text)))

\* min(5, ceil(0.3 * n)): the least whole number that is at least 0.3 * n, or 5.
topCount(n) ==
  CHOOSE m \in 0..5 : /\ (10 * m >= 3 * n \/ m = 5)
                      /\ \A j \in 0..(m - 1) : 10 * j < 3 * n

\* C19: of the n qualifying sentences the summary holds exactly
\* k = min(5, ceil(0.3 * n)), and they are the k best by score, the earlier
\* sentence first among equal scores: no sentence left out has a higher score
\* than a selected one, nor an equal score and an earlier index.
C19_SummaryHoldsTheTopSentences ==
  pc = "applied"
  => /\ Len(selection) = topCount(Len(scoredOf(content)))
     /\ Cardinality(Elements(selection)) = Len(selection)
     /\ Elements(selection) \subseteq Elements(scoredOf(content))
     /\ \A chosen \in Elements(selection) :
          \A other \in Elements(scoredOf(content)) \ Elements(selection) :
            /\ other.score <= chosen.score
            /\ other.score = chosen.score => other.index > chosen.index
     /\ summaryResult.summary = joinSummary(selection)

\* Two sentences were selected, and a later sentence that was left out has
\* the same score as one of them.
C19_TieAtTheCut ==
  /\ pc = "applied"
  /\ Len(selection) = 2
  /\ \E chosen \in Elements(selection) :
       \E other \in Elements(scoredOf(content)) \ Elements(selection) :
         other.score = chosen.score /\ other.index > chosen.index

\* C20: the bonus for the first 20% of the sentences (+3) and the bonus for
\* the last 20% (+2) are not mutually exclusive: in some document of at most
\* 5 sentences one sentence receives both, +5 from its position.
C20_SomeSentenceGetsBothBonuses ==
  pc = "applied"
  => \E total \in 1..5 :
       \E index \in 0..(total - 1) : positionBonus(index, total) = 3 + 2

\* The key points when each later strategy runs exactly when the earlier
\* ones have collected fewer than 3 candidates.
keyPointsByPriority(text) ==
  LET sentences == extractSentences(preprocessContent(text))
      bulletPoints == extractBulletPoints(text)
      withKeywords == IF Len(bulletPoints) < 3
                      THEN bulletPoints \o findKeywordSentences(sentences)
                      ELSE bulletPoints
      withFallback == IF Len(withKeywords) < 3
                      THEN withKeywords \o Slice(sentences, 3)
                      ELSE withKeywords
  IN Slice(SelectSeq(withFallback, LAMBDA point : Len(point) > 10 /\ Len(point) < 200), 5)

\* C21: extractKeyPoints takes bullet or numbered items first, then the
\* key-indicator sentences, then the first 3 raw sentences, and runs each
\* later strategy exactly when the earlier ones gave fewer than 3 candidates:
\* the first-3-sentences fallback is added also when one or two candidates
\* were found, not only when none was.
C21_FallbackWheneverFewerThanThree ==
  pc = "applied" => summaryResult.keyPoints = keyPointsByPriority(content)

\* C26: translateWithRetry never rejects: it makes at most maxRetries (3)
\* attempts, waits retryDelay * attempt ms (1000, then 2000) only between a
\* failed attempt and the next and never after the last, resolves with the
\* first attempt that resolves without a further attempt, and after three
\* failed attempts resolves with the fallback translation of the input.
C26_RetriesThenFallsBack ==
  /\ attempt \in 1..3
  /\ delays = SubSeq(<<1000, 2000>>, 1, attempt - 1)
  /\ translationPath \in {"hosted", "chatFailed"} => attempt = 1 /\ delays = <<>>
  /\ translationPath = "exhausted" =>
       /\ attempt = 3 /\ delays = <<1000, 2000>>
       /\ summaryUrdu = generateFallbackTranslation(summaryResult.summary)
  /\ pc \in {"save", "respond"} => translationPath \in {"hosted", "chatFailed", "exhausted"}

\* Three attempts have failed and the fallback translation was returned.
C26_ThreeAttemptsFailed ==
  /\ pc = "save" /\ translationPath = "exhausted"
  /\ delays = <<1000, 2000>>
  /\ summaryUrdu # <<>>

\* C27: saveToBothDatabases never throws, tries the Supabase save also when
\* the MongoDB save failed, and returns success = true exactly when at least
\* one of the two stores reported a successful save, whatever id the store
\* returned; error has one entry for each store that failed.
C27_SuccessWhenAStoreSaved ==
  pc = "respond" =>
    /\ Len(saveResult.errors) <= 2
    /\ saveResult.success = (Len(saveResult.errors) < 2)

(***************************************************************************)
(* Properties of scrapeContent (under SpecScrape).                         *)
(***************************************************************************)

\* C12: a fetched document that holds at least one <p> whose trimmed text is
\* longer than 20 characters, wherever that paragraph sits, is never answered
\* with 'Could not extract sufficient content from the webpage'.
C12_ParagraphAggregationIsTotal ==
  (pc \in {"delay", "thrown"} /\ lastError = EXTRACTION_FAILURE)
  => paragraphsOf(document) = <<>>

\* What attempt k has written to the log.
stepsOf(k) ==
  LET own == SelectSeq(scrapeLog, LAMBDA e : e[1] # "wait" /\ e[2] = k)
  IN [j \in 1..Len(own) |-> own[j][1]]

\* The waits of the log, in order.
waitsOf(log) ==
  LET waits == SelectSeq(log, LAMBDA e : e[1] = "wait")
  IN [j \in 1..Len(waits) |-> waits[j][2]]

appendedAfter(i) ==
  SubSeq(calls[i + 1].args[1], Len(calls[i].args[1]) + 1, Len(calls[i + 1].args[1]))

\* C13 (as amended): appending u to t never lowers the score of
\* validateContent when t ends with a word and u starts with white space, the
\* words of u are pairwise distinct and none of them occurs in t, u is
\* organised in sentences, and t + u has a navigation indicator only if t has.
C13_CleanAppendixKeepsScore ==
  \A i \in 1..(Len(calls) - 1) :
    ( /\ newWords(calls[i].args[1], appendedAfter(i))
      /\ sentenceStructured(appendedAfter(i))
      /\ pairwiseDistinct(appendedAfter(i))
      /\ wordBoundary(calls[i].args[1], appendedAfter(i))
      /\ hasNavigationText(calls[i + 1].args[1]) => hasNavigationText(calls[i].args[1]) )
    => ~scoreLess(calls[i + 1].result, calls[i].result)

\* Three new sentences were appended to a short text and the score rose.
C13_ScoreRoseWithNewSentences ==
  /\ Len(calls) = 2
  /\ newWords(calls[1].args[1], appendedAfter(1))
  /\ sentenceStructured(appendedAfter(1))
  /\ pairwiseDistinct(appendedAfter(1))
  /\ wordBoundary(calls[1].args[1], appendedAfter(1))
  /\ ~hasNavigationText(calls[2].args[1])
  /\ calls[1].result.issues # <<>>
  /\ scoreLess(calls[1].result, calls[2].result)

\* C13 (as stated): appending a text made of words t does not have and
\* organised in sentences never lowers the score of validateContent.
C13_AppendingNeverLowersScore ==
  \A i \in 1..(Len(calls) - 1) :
    ( /\ newWords(calls[i].args[1], appendedAfter(i))
      /\ sentenceStructured(appendedAfter(i)) )
    => ~scoreLess(calls[i + 1].result, calls[i].result)

(***************************************************************************)
(* Properties of postProcessUrduTranslation (under SpecPostProcess).       *)
(***************************************************************************)

\* C14: for every x that normalizeUrduText leaves unchanged, applying
\* postProcessUrduTranslation to postProcessUrduTranslation(x) gives
\* postProcessUrduTranslation(x) again, also when x is three or more tokens
\* of Urdu letters separated by single spaces.
C14_PostProcessIsIdempotent ==
  \A i \in 1..(Len(calls) - 1) :
    ( /\ calls[i].fn = "postProcessUrduTranslation"
      /\ normalizeUrduText(calls[1].args[1]) = calls[1].args[1]
      /\ calls[i + 1].args[1] = calls[i].result )
    => calls[i + 1].result = calls[i].result

(***************************************************************************)
(* Properties of translateUsingDictionary (under SpecDictionary).          *)
(***************************************************************************)

C16_ScoresStayInUnitInterval ==
  /\ \A i \in 1..Len(calls) :
       calls[i].fn = "validateContent"
       => /\ 0 <= calls[i].result.score /\ calls[i].result.score <= 100
          /\ calls[i].result.score = 0 => calls[i].result.scoreUlps >= 0
          /\ calls[i].result.score = 100 => calls[i].result.scoreUlps <= 0
  /\ validation # NoValidation
     => /\ 0 <= validation.metrics.qualityScore
        /\ validation.metrics.qualityScore <= 100
        /\ validation.metrics.qualityScore = 0 => validation.metrics.qualityRounding >= 0
        /\ validation.metrics.qualityScore = 100 => validation.metrics.qualityRounding <= 0
        /\ validation.metrics.qualityScore <= validation.confidence
        /\ validation.confidence <= 100

\* Every deduction of analyzeUrduTextQuality applied to one candidate.
C16_EveryDeductionApplied ==
  /\ pc = "applied"
  /\ Len(validation.metrics.issues) = 4
  /\ validation.metrics.qualityScore = 0
  /\ validation.confidence = 0

\* Every penalty of validateContent applied to one text.
C16_EveryPenaltyApplied ==
  /\ pc = "validated"
  /\ Len(calls[Len(calls)].result.issues) = 5
  /\ calls[Len(calls)].result.score = 0

(***************************************************************************)
(* Properties of scrapeMultiple and translateMultiple (under SpecBatch).   *)
(***************************************************************************)

\* C17: every item of the batch is started before any of them is waited
\* for; the batch call never rejects; and it resolves with an array as long
\* as the input whose i-th entry is the outcome of the i-th input: its value,
\* or the Error of its rejection (scraping), or its dictionary translation
\* (translation), whichever items fail and in whatever order they settle.
C17_BatchKeepsEveryItemInPlace ==
  /\ thrown = <<>>
  /\ (pc # "map" \/ batch.order # <<>>) => allStarted(batch.items)
  /\ pc = "resolved"
     => /\ Len(batch.results) = Len(batch.items)
        /\ \A i \in 1..Len(batch.items) :
             /\ batch.items[i].state = "fulfilled"
                => batch.results[i] = batch.items[i].value
             /\ (batch.items[i].state = "rejected" /\ batch.fn = "scrapeMultiple")
                => batch.results[i] = [error |-> Str("Error: ") \o batch.items[i].reason]
             /\ (batch.items[i].state = "rejected" /\ batch.fn = "translateMultiple")
                => batch.results[i] = translateUsingDictionary(batch.items[i].input)
             /\ (batch.items[i].state = "fulfilled" /\ batch.fn = "scrapeMultiple")
                => batch.results[i].url = batch.items[i].input

\* Two URLs were scraped, the second settled first and was rejected, the
\* first was fulfilled.
C17_SecondSettledFirst ==
  /\ pc = "resolved" /\ batch.fn = "scrapeMultiple"
  /\ batch.order = <<2, 1>>
  /\ batch.items[1].state = "fulfilled"
  /\ batch.items[2].state = "rejected"
  /\ batch.results[1].url = batch.items[1].input

(***************************************************************************)
(* Properties of the word lookup (under SpecDictionary).                   *)
(***************************************************************************)

\* What the lookup rule emits for one token of the input as it was typed: the
\* entry of the first candidate found, else the token itself.
emittedByRule(token) ==
  LET candidates == generateWordVariations(RemoveChars(ToLowerCase(token), LookupPunctuation))
      found == {k \in 1..Len(candidates) : candidates[k] \in DOMAIN ENGLISH_URDU_DICTIONARY}
  IN IF found # {}
     THEN ENGLISH_URDU_DICTIONARY[candidates[CHOOSE k \in found : \A m \in found : k <= m]]
     ELSE token

tokensOf(text) == SelectSeq(Split(text, WhiteSpace), LAMBDA word : Len(word) > 0)

\* C22: for every whitespace-separated token of the input,
\* translateUsingDictionary emits the entry of the first candidate in the
\* dictionary (the punctuation-stripped lowercased token, its suffix-stripped
\* forms, its ies->y form) and, when there is none, the original token
\* unchanged.
C22_UnknownTokensAreLeftUnchanged ==
  \A k \in 1..Len(calls) :
    ~IsBlank(calls[k].args[1]) =>
      calls[k].result =
        postprocessTranslation(
          Join([i \in 1..Len(tokensOf(calls[k].args[1])) |->
                  emittedByRule(tokensOf(calls[k].args[1])[i])], <<32>>))

(***************************************************************************)
(* Properties of the punctuation spacing (under SpecPostProcess).          *)
(***************************************************************************)

\* C23: in every non-empty output of postProcessUrduTranslation each of the
\* marks U+06D4, U+061F, !, U+060C, U+061B is immediately preceded by a
\* non-whitespace character and, unless it is the last character, followed by
\* exactly one space, and the output ends with U+06D4, U+061F or !; also for
\* inputs with two or more marks in a row.
C23_MarksFollowTheirTokens ==
  \A k \in 1..Len(calls) :
    LET out == calls[k].result
    IN out # <<>> =>
         /\ out[Len(out)] \in UrduSentenceEnd
         /\ \A i \in 1..Len(out) :
              out[i] \in UrduPunctuation =>
                /\ i > 1 /\ out[i - 1] \notin WhiteSpace
                /\ i < Len(out) =>
                     /\ out[i + 1] = 32
                     /\ i + 2 <= Len(out) => out[i + 2] \notin WhiteSpace

(***************************************************************************)
(* extractTitle applied to the document cheerio.load has parsed.           *)
(***************************************************************************)

\* The longest document has MaxHeadings title elements.
MaxHeadings == 2

\* A Latin title, an Urdu title, a title of spaces, a title of 282
\* characters, a title in both scripts.
TitleTexts ==
  << Str("Solar power"), <<1582, 1576, 1585>>, Str("   "), LONG_TEXT \o LONG_TEXT,
     <<1582, 1576, 1585>> \o Str(" News") >>

\* <h1 class="entry-title">, <header><h1>, <h1> and <title>, each around one
\* of the texts.
Heading(kind, text) ==
  LET around(element) == Under(element, <<[Element("#text", {}) EXCEPT !.text = text]>>)
  IN CASE kind = 1 -> around(Element("h1", {"entry-title"}))
       [] kind = 2 -> Under(Element("header", {}), around(Element("h1", {})))
       [] kind = 3 -> around(Element("h1", {}))
       [] kind = 4 -> around(Element("title", {}))

Headings == { Heading(kind, TitleTexts[t]) : kind \in 1..4, t \in DOMAIN TitleTexts }

TitledDocuments ==
  LET RECURSIVE Rows(_)
      Rows(n) == IF n = 0 THEN {<<>>}
                 ELSE Rows(n - 1) \cup
                      { Beside(row, h) : row \in Rows(n - 1), h \in Headings }
  IN Rows(MaxHeadings)

InitTitle ==
  /\ pc = "input"
  /\ available = TRUE
  /\ content = <<>>
  /\ HandlerIdle
  /\ ValidatorIdle
  /\ calls = <<>>
  /\ batch = NoBatch
  /\ thrown = <<>>
  /\ document \in TitledDocuments
  /\ scrapeAttempt = 1 /\ scrapeLog = <<>> /\ lastError = <<>>
  /\ scraped = NoScrape
  /\ AppIdle

\* const title = this.extractTitle($)
ExtractTitle ==
  /\ pc = "input"
  /\ content' = extractTitle(document)
  /\ calls' = Append(calls, Call("extractTitle", <<document>>, extractTitle(document)))
  /\ pc' = "applied"
  /\ UNCHANGED <<available, url, summaryPath, summaryReply, summaryResult, selection,
                 attempt, delays, translationPath, translationReply, summaryUrdu,
                 saveResult, response, chatCalls, validatorVars, batch, libraryVars,
                 appVars>>

NextTitle == ExtractTitle

SpecTitle == InitTitle /\ [][NextTitle]_vars

\* C24: extractTitle always returns a non-empty title: the text of the first
\* title selector whose candidate is non-empty and shorter than 200
\* characters, and the default 'Untitled Article' when there is none;
\* whatever characters the candidate consists of, the title returned is never
\* the empty string.
C24_TitleIsNeverEmpty ==
  pc = "applied" =>
    /\ content # <<>>
    /\ (\A k \in 1..Len(titleSelectors) :
          Len(titleCandidate(document, k)) \notin 1..199) => content = UNTITLED

(***************************************************************************)
(* saveFullTextToMongoDB called several times side by side: the calls      *)
(* share the module-level MongoClient, and every await lets another call   *)
(* run.                                                                    *)
(***************************************************************************)

\* The most calls running side by side.
MaxSaves == 3

NewSave == [pc |-> "call", connected |-> FALSE, inserted |-> FALSE]

InitSaves ==
  /\ page = NoPage
  /\ batchOp = NoBatchOp
  /\ pc = "saving"
  /\ available = TRUE
  /\ content = <<>>
  /\ HandlerIdle
  /\ ValidatorIdle
  /\ calls = <<>>
  /\ batch = NoBatch
  /\ thrown = <<>>
  /\ document = <<>> /\ scrapeAttempt = 1 /\ scrapeLog = <<>> /\ lastError = <<>>
  /\ scraped = NoScrape
  /\ mongoClient = "new"
  /\ \E n \in 2..MaxSaves : saves = [c \in 1..n |-> NewSave]

SavesUnchanged ==
  UNCHANGED <<pc, handlerVars, validatorVars, libraryVars, calls, batch, page, batchOp>>

\* await mongoClient.connect() resolves: the client has a topology
ConnectSucceeds ==
  \E c \in DOMAIN saves :
    /\ saves[c].pc = "call"
    /\ mongoClient' = "open"
    /\ saves' = [saves EXCEPT ![c].pc = "connected", ![c].connected = TRUE]
    /\ SavesUnchanged

\* await mongoClient.connect() rejects: the catch block rethrows
ConnectFails ==
  \E c \in DOMAIN saves :
    /\ saves[c].pc = "call"
    /\ saves' = [saves EXCEPT ![c].pc = "caught"]
    /\ UNCHANGED mongoClient
    /\ SavesUnchanged

\* db.collection('full_texts').insertOne(data) is started: it rejects at once
\* on a client that has been closed
InsertOne ==
  \E c \in DOMAIN saves :
    /\ saves[c].pc = "connected"
    /\ saves' = [saves EXCEPT ![c].pc = IF mongoClient = "open" THEN "inserting" ELSE "caught"]
    /\ UNCHANGED mongoClient
    /\ SavesUnchanged

\* the insert settles: it resolves on an open client; on a client closed
\* meanwhile the document was written or the connection was lost first
InsertSettles ==
  \E c \in DOMAIN saves :
    /\ saves[c].pc = "inserting"
    /\ \E written \in (IF mongoClient = "open" THEN {TRUE} ELSE BOOLEAN) :
         saves' = [saves EXCEPT ![c].pc = IF written THEN "finally" ELSE "caught",
                                ![c].inserted = written]
    /\ UNCHANGED mongoClient
    /\ SavesUnchanged

\* finally { await mongoClient.close() } : the call resolves, or rejects with
\* the error its catch block rethrew
Close ==
  \E c \in DOMAIN saves :
    /\ saves[c].pc \in {"finally", "caught"}
    /\ mongoClient' = "closed"
    /\ saves' = [saves EXCEPT ![c].pc = IF saves[c].pc = "finally" THEN "resolved" ELSE "rejected"]
    /\ SavesUnchanged

NextSaves ==
  \/ ConnectSucceeds
  \/ ConnectFails
  \/ InsertOne
  \/ InsertSettles
  \/ Close

SpecSaves == InitSaves /\ [][NextSaves]_vars

\* C25: under every interleaving of two or more saveFullTextToMongoDB calls
\* sharing the module-level client, no insertOne runs on a client another call
\* has closed: every call whose own connect succeeded completes its insert.
C25_EveryConnectedCallInserts ==
  (\A d \in DOMAIN saves : saves[d].connected) =>
    \A c \in DOMAIN saves :
      saves[c].pc \in {"caught", "finally", "resolved", "rejected"} => saves[c].inserted

(***************************************************************************)
(* The main page (app/page.tsx): the url field, the Summarize button, the  *)
(* awaits of handleSummarize and the reset button.                         *)
(***************************************************************************)

PageUrls == {<<>>, Str("   "), Str("not a url"), Str("https://blog.example/post")}

PageSummaries == {Str("Solar power grows."), Str("Prices fell again.")}

URDU_SUMMARY == <<1588, 1605, 1587, 1740, FULL_STOP>>

ProcessingSteps == <<"idle", "scraping", "summarizing", "translating", "saving", "completed">>

getStepProgress(currentStep) ==
  CASE currentStep = "idle" -> 0
    [] currentStep = "scraping" -> 25
    [] currentStep = "summarizing" -> 50
    [] currentStep = "translating" -> 75
    [] currentStep = "saving" -> 90
    [] currentStep = "completed" -> 100

InitPage ==
  /\ pc = "page"
  /\ available = TRUE
  /\ content = <<>>
  /\ HandlerIdle
  /\ ValidatorIdle
  /\ LibraryIdle

PageUnchanged ==
  UNCHANGED <<pc, handlerVars, validatorVars, libraryVars, calls, batch, mongoClient, saves,
              batchOp>>

\* setStep(next); setProgress(getStepProgress(next))
stepTo(state, next) == [state EXCEPT !.step = next, !.progress = getStepProgress(next), !.at = next]

\* A catch block that leaves the step where the failure happened.
caughtKeepingStep(state, message) ==
  [state EXCEPT !.error = message, !.loading = FALSE, !.at = "none"]

\* catch (err) { setError(...); setStep('idle'); setProgress(0) } finally
\* { setLoading(false) }
caught(state, message) ==
  [state EXCEPT !.error = message, !.step = "idle", !.progress = 0,
                !.loading = FALSE, !.at = "none"]

\* onChange of the url field, which is disabled while loading
TypeUrl ==
  /\ ~page.loading
  /\ \E typed \in PageUrls \ {page.url} : page' = [page EXCEPT !.url = typed]
  /\ PageUnchanged

\* A click on the button, which is disabled while loading or without a url:
\* handleSummarize runs up to its first await, or returns from a check
ClickSummarize ==
  /\ ~page.loading /\ ~IsBlank(page.url)
  /\ page' =
       IF page.url = <<>> THEN [page EXCEPT !.error = "Please enter a valid blog URL"]
       ELSE IF ~parsesAsUrl(page.url)
       THEN [page EXCEPT !.error =
               "Please enter a valid URL (e.g., https://example.com/blog-post)"]
       ELSE stepTo([page EXCEPT !.loading = TRUE, !.error = "",
                                !.summary = EmptySummary, !.progress = 0],
                   "scraping")
  /\ PageUnchanged

\* await scrapeBlogContent(url) resolves
ScrapeResolves ==
  /\ page.at = "scraping"
  /\ page' = stepTo([page EXCEPT !.content = LONG_TEXT], "summarizing")
  /\ PageUnchanged

\* ... or rejects
ScrapeRejects ==
  /\ page.at = "scraping"
  /\ page' = caught(page, "Failed to extract content from the provided URL.")
  /\ PageUnchanged

\* await generateSummary(content) resolves
SummaryResolves ==
  /\ page.at = "summarizing"
  /\ \E english \in PageSummaries :
       page' = stepTo([page EXCEPT !.englishSummary = english], "translating")
  /\ PageUnchanged

SummaryRejects ==
  /\ page.at = "summarizing"
  /\ page' = caught(page, "Failed to generate summary.")
  /\ PageUnchanged

\* await translateToUrdu(englishSummary) resolves
TranslationResolves ==
  /\ page.at = "translating"
  /\ page' = stepTo([page EXCEPT !.urduSummary = URDU_SUMMARY], "saving")
  /\ PageUnchanged

TranslationRejects ==
  /\ page.at = "translating"
  /\ page' = caught(page, "Failed to translate to Urdu.")
  /\ PageUnchanged

\* await fetch('/api/summarize', ...) resolves with response.ok
SaveAccepted ==
  /\ page.at = "saving"
  /\ page' = [stepTo(page, "completed") EXCEPT
                !.summary = [english |-> page.englishSummary, urdu |-> page.urduSummary],
                !.loading = FALSE, !.at = "none"]
  /\ PageUnchanged

\* ... resolves with a response that is not ok, or rejects
SaveRefused ==
  /\ page.at = "saving"
  /\ \E message \in {"Failed to save data to the database. Please try again.",
                     "Failed to fetch"} :
       page' = caught(page, message)
  /\ PageUnchanged

\* The reset button, shown when step is completed and nothing is loading
ResetForm ==
  /\ page.step = "completed" /\ ~page.loading
  /\ page' = [page EXCEPT !.url = <<>>, !.summary = EmptySummary, !.error = "",
                          !.step = "idle", !.progress = 0]
  /\ PageUnchanged

NextPage ==
  \/ TypeUrl
  \/ ClickSummarize
  \/ ScrapeResolves
  \/ ScrapeRejects
  \/ SummaryResolves
  \/ SummaryRejects
  \/ TranslationResolves
  \/ TranslationRejects
  \/ SaveAccepted
  \/ SaveRefused
  \/ ResetForm

SpecPage == InitPage /\ [][NextPage]_vars

\* step' comes right after step in ProcessingSteps.
StepsForward ==
  \E k \in 1..(Len(ProcessingSteps) - 1) :
    page.step = ProcessingSteps[k] /\ page'.step = ProcessingSteps[k + 1]

\* What holds of the page whenever it is shown.
PageShown ==
  /\ ~page.loading => page.step \in {"idle", "completed"} /\ page.at = "none"
  /\ page.summary # EmptySummary => page.step = "completed" /\ ~page.loading

\* C28 as stated: step only moves along idle -> scraping -> summarizing ->
\* translating -> saving -> completed, or back to idle.
C28_StepOnlyMovesForward ==
  [][page'.step # page.step => StepsForward \/ page'.step = "idle"]_vars

\* C28: while handleSummarize runs, step moves along scraping -> summarizing
\* -> translating -> saving -> completed, a run starting from idle or from
\* the completed step of the run before; a failure in any step sets a
\* non-empty error and returns step to idle and progress to 0; when the
\* handler has finished, loading is false and step is idle or completed; the
\* summary shown is non-empty only when step = completed, after scraping,
\* summarizing, translating and the save request all succeeded.
C28_RunsFollowTheChain ==
  /\ [](PageShown)
  /\ [][/\ page'.step # page.step =>
             \/ StepsForward
             \/ page'.step = "idle"
             \/ page.step = "completed" /\ page'.step = "scraping" /\ ~page.loading
        /\ page.loading /\ ~page'.loading /\ page'.step # "completed" =>
             page'.error # "" /\ page'.step = "idle" /\ page'.progress = 0
        /\ page'.summary # EmptySummary /\ page.summary = EmptySummary =>
             page.step = "saving" /\ page'.step = "completed"]_vars

\* A run has completed and its summary is shown.
C28_SummaryShown ==
  /\ page.step = "completed" /\ ~page.loading
  /\ page.summary.english # <<>> /\ page.summary.urdu # <<>>
  /\ page.progress = 100

(***************************************************************************)
(* batchOperation (lib/database.ts): the operations are started one batch  *)
(* at a time; Promise.allSettled waits for the batch; the operations       *)
(* settle in any order.                                                    *)
(***************************************************************************)

\* The longest list of operations, and the largest batchSize.
MaxOperations == 3

MaxBatchSize == 2

\* operations.slice(start, end) on a list of n operations: the positions
\* taken, counted from 1
sliceOf(n, start, end) ==
  LET from == IF start < 0 THEN Max(n + start, 0) ELSE Min(start, n)
      to == IF end < 0 THEN Max(n + end, 0) ELSE Min(end, n)
  IN (from + 1)..to

\* What result of allSettled becomes
processed(result) ==
  IF result.status = "fulfilled"
  THEN [success |-> TRUE, data |-> result.value, error |-> ""]
  ELSE [success |-> FALSE, data |-> 0, error |-> result.reason]

InitBatchOp ==
  /\ pc = "batchOperation"
  /\ available = TRUE
  /\ content = <<>>
  /\ HandlerIdle
  /\ ValidatorIdle
  /\ calls = <<>>
  /\ batch = NoBatch
  /\ thrown = <<>>
  /\ document = <<>> /\ scrapeAttempt = 1 /\ scrapeLog = <<>> /\ lastError = <<>>
  /\ scraped = NoScrape
  /\ mongoClient = "new" /\ saves = <<>> /\ page = NoPage
  /\ \E n \in 0..MaxOperations, size \in 0..MaxBatchSize :
       batchOp = [pc |-> "loop", operations |-> n, batchSize |-> size, i |-> 0,
                  pending |-> {}, settled |-> {}, results |-> <<>>]

BatchOpUnchanged ==
  UNCHANGED <<pc, handlerVars, validatorVars, libraryVars, calls, batch, mongoClient, saves,
              page>>

\* i < operations.length: batch.map(op => op()) starts the operations of the
\* slice, and the call waits for Promise.allSettled
StartSlice ==
  /\ batchOp.pc = "loop" /\ batchOp.i < batchOp.operations
  /\ batchOp' = [batchOp EXCEPT
                   !.pc = "await",
                   !.pending = sliceOf(batchOp.operations, batchOp.i,
                                       batchOp.i + batchOp.batchSize),
                   !.settled = {}]
  /\ BatchOpUnchanged

\* One operation in flight fulfils with its value, or rejects with an Error
OperationSettles ==
  /\ batchOp.pc = "await"
  /\ \E k \in batchOp.pending :
       \E result \in {[op |-> k, status |-> "fulfilled", value |-> k, reason |-> ""],
                      [op |-> k, status |-> "rejected", value |-> 0, reason |-> "failed"]} :
         batchOp' = [batchOp EXCEPT !.pending = @ \ {k}, !.settled = @ \cup {result}]
  /\ BatchOpUnchanged

\* allSettled resolves: the results of the slice, in the order of the slice,
\* are pushed and i += batchSize
PushResults ==
  /\ batchOp.pc = "await" /\ batchOp.pending = {}
  /\ LET slice == Ascending({result.op : result \in batchOp.settled}, batchOp.operations)
         resultOf(k) == CHOOSE result \in batchOp.settled : result.op = k
     IN batchOp' = [batchOp EXCEPT
                      !.pc = "loop",
                      !.results = @ \o [k \in 1..Len(slice) |-> processed(resultOf(slice[k]))],
                      !.settled = {},
                      !.i = @ + batchOp.batchSize]
  /\ BatchOpUnchanged

\* i >= operations.length: return results
ReturnResults ==
  /\ batchOp.pc = "loop" /\ batchOp.i >= batchOp.operations
  /\ batchOp' = [batchOp EXCEPT !.pc = "returned"]
  /\ BatchOpUnchanged

NextBatchOp ==
  \/ StartSlice
  \/ OperationSettles
  \/ PushResults
  \/ ReturnResults

\* Every operation settles, and every continuation is run by the event loop.
SpecBatchOp == InitBatchOp /\ [][NextBatchOp]_vars /\ WF_vars(NextBatchOp)

\* C29: batchOperation terminates for every list of operations and every
\* integer batchSize, with one result per operation in input order.
C29_BatchOperationReturns ==
  <>(/\ batchOp.pc = "returned"
     /\ Len(batchOp.results) = batchOp.operations)

(***************************************************************************)
(* calculateUrduScriptPercentage and containsUrduScript applied to the     *)
(* same text.                                                              *)
(***************************************************************************)

\* The longest text.
MaxChars == 3

\* a, space, alef, the Urdu full stop, and U+FEFF, which closes the last of
\* the URDU_UNICODE_RANGES and is white space to \s
ScriptChars == {97, 32, 1575, FULL_STOP, 65279}

ScriptTexts == UNION {[1..n -> ScriptChars] : n \in 0..MaxChars}

InitScript ==
  /\ pc = "input"
  /\ available = TRUE
  /\ content \in ScriptTexts
  /\ HandlerIdle
  /\ ValidatorIdle
  /\ LibraryIdle

\* calculateUrduScriptPercentage(content)
MeasureScript ==
  /\ pc = "input"
  /\ calls' = Append(calls, Call("calculateUrduScriptPercentage", <<content>>,
                                 calculateUrduScriptPercentage(content)))
  /\ pc' = "applied"
  /\ UNCHANGED <<available, url, content, summaryPath, summaryReply, summaryResult,
                 selection, attempt, delays, translationPath, translationReply, summaryUrdu,
                 saveResult, response, chatCalls, validatorVars, batch, libraryVars,
                 appVars>>

NextScript == MeasureScript

SpecScript == InitScript /\ [][NextScript]_vars

\* C30: for every text calculateUrduScriptPercentage returns a value in
\* [0, 100], and the value is greater than 0 exactly when
\* containsUrduScript(text) is true.
C30_PercentageAgreesWithDetection ==
  \A k \in 1..Len(calls) :
    LET percentage == calls[k].result
    IN /\ ~PercentBelow(percentage, 0)
       /\ ~PercentAbove(percentage, 100)
       /\ PercentAbove(percentage, 0) <=> containsUrduScript(calls[k].args[1])

====
